---- MODULE Spec2Model ----
(***************************************************************************)
(* Assessment pipeline of english_learning_app: grammar scoring            *)
(* (GrammarAnalyzer + GrammarCheckService), vocabulary scoring             *)
(* (VocabularyAnalyzer + WordNetAnalyzer), their aggregation               *)
(* (TextAnalyzer), word-count validation and the essay pipeline            *)
(* (EnglishAnalyzer, MemoryStorage), follow-up test selection             *)
(* (DiagnosticEngine), the cached loaders of the annotation model          *)
(* (_get_nlp of the three analyzer modules) and the test sessions of the   *)
(* service layer (AnalysisService.submit_test_answer).                     *)
(*                                                                         *)
(* Scores are Python floats in the source.  They are modelled as exact     *)
(* fractions <<numerator, denominator>> in lowest terms, so that equal     *)
(* scores are equal values and every comparison is exact.                  *)
(***************************************************************************)
EXTENDS Integers, Sequences, FiniteSets, TLC

VARIABLES
    text,           \* the text handed to GrammarAnalyzer.analyze
    checker,        \* behaviour of the LanguageTool collaborator during the call
    grammar,        \* outcome of GrammarAnalyzer.analyze: the GrammarAnalysis, the calls made
    question_bank,  \* DiagnosticEngine.question_bank
    essay_result,   \* the AnalysisResult handed to generate_followup_test
    test,           \* outcome of the latest generate_followup_test call
    prev,           \* outcome of the call before it
    lexis,          \* what the vocabulary analyzers read of the annotated text
    report,         \* outcome of TextAnalyzer.analyze
    words,          \* len(text.split())
    storage,        \* MemoryStorage.analyses
    outcome,        \* outcome of EnglishAnalyzer.analyze_essay
    synsets_cache,  \* the lru_cache of WordNetAnalyzer._synsets_cached
    spacy_model,    \* what spacy.load("en_core_web_sm") does in this process
    nlp_instances,  \* the Language objects the _get_nlp loaders have created
    nlp_cache,      \* the lru_cache of _get_nlp of each of the three modules
    analyzers,      \* the analyzers constructed, each with its self.nlp
    tasks,          \* the two analyzer tasks of TextAnalyzer.analyze
    db,             \* the committed rows of test_sessions and test_answers
    requests,       \* the submit_test_answer calls in flight: what each has read
    bank_arg        \* the question_bank argument the DiagnosticEngine was constructed with

loader_vars == <<spacy_model, nlp_instances, nlp_cache, analyzers>>

session_vars == <<db, requests>>

vars == <<text, checker, grammar, question_bank, essay_result, test, prev,
          lexis, report, words, storage, outcome, synsets_cache, loader_vars,
          tasks, session_vars, bank_arg>>


None == "None"

(***************************************************************************)
(* Float arithmetic on scores, as exact fractions                          *)
(***************************************************************************)
RECURSIVE GCD(_, _)
GCD(a, b) == IF b = 0 THEN a ELSE GCD(b, a % b)

Norm(n, d) == LET g == GCD(IF n < 0 THEN -n ELSE n, d) IN <<n \div g, d \div g>>

R(n) == <<n, 1>>

RAdd(x, y) == Norm(x[1] * y[2] + y[1] * x[2], x[2] * y[2])

RSub(x, y) == Norm(x[1] * y[2] - y[1] * x[2], x[2] * y[2])

\* x * (n / d), the product with a literal weight such as 0.5 = 5/10
RTimes(x, n, d) == Norm(x[1] * n, x[2] * d)

RLe(x, y) == x[1] * y[2] <= y[1] * x[2]

RLt(x, y) == x[1] * y[2] < y[1] * x[2]

\* Python max(a, b) / min(a, b): the first argument wins a tie (same value)
RMax(x, y) == IF RLt(x, y) THEN y ELSE x

RMin(x, y) == IF RLt(y, x) THEN y ELSE x

Range(s) == {s[i] : i \in DOMAIN s}

RECURSIVE SumOver(_, _)
SumOver(f, keys) ==
    IF keys = {} THEN R(0)
    ELSE LET k == CHOOSE x \in keys : TRUE
         IN  RAdd(f[k], SumOver(f, keys \ {k}))

\* sum(d.values()) / len(d) for a non-empty dict d
Mean(f) == LET s == SumOver(f, DOMAIN f) IN Norm(s[1], s[2] * Cardinality(DOMAIN f))

(***************************************************************************)
(* models.py: GrammarAspect                                                *)
(***************************************************************************)
GrammarAspect ==
    {"PRESENT_SIMPLE", "PRESENT_CONTINUOUS", "PAST_SIMPLE", "PAST_CONTINUOUS",
     "PRESENT_PERFECT", "PAST_PERFECT", "FUTURE_SIMPLE", "FUTURE_CONTINUOUS",
     "FUTURE_PERFECT", "CONDITIONALS", "PASSIVE_VOICE", "MODAL_VERBS",
     "RELATIVE_CLAUSES", "ARTICLES", "PREPOSITIONS",
     "VOCABULARY_USAGE", "VOCABULARY_COLLOCATIONS", "SENTENCE_STRUCTURE"}

\* GrammarAnalyzer._all_aspects: the 15 tracked aspects
all_aspects ==
    {"PRESENT_SIMPLE", "PRESENT_CONTINUOUS", "PAST_SIMPLE", "PAST_CONTINUOUS",
     "PRESENT_PERFECT", "PAST_PERFECT", "FUTURE_SIMPLE", "FUTURE_CONTINUOUS",
     "FUTURE_PERFECT", "CONDITIONALS", "PASSIVE_VOICE", "MODAL_VERBS",
     "RELATIVE_CLAUSES", "ARTICLES", "PREPOSITIONS"}

(***************************************************************************)
(* Python dict with insertion order: keys in order, val the mapping        *)
(***************************************************************************)
EmptyDict == [keys |-> <<>>, val |-> <<>>]

DictHas(d, k) == k \in Range(d.keys)

DictPut(d, k, v) ==
    IF DictHas(d, k)
    THEN [d EXCEPT !.val = [x \in Range(d.keys) |-> IF x = k THEN v ELSE d.val[x]]]
    ELSE [keys |-> Append(d.keys, k),
          val  |-> [x \in Range(d.keys) \cup {k} |-> IF x = k THEN v ELSE d.val[x]]]

(***************************************************************************)
(* The annotated document (spaCy Doc).  A token carries the attributes the *)
(* analyzer reads: lower-cased text, pos_, tag_, dep_, the head's pos_,    *)
(* dep_ and text, the lower-cased texts of its children in order, and      *)
(* whether its first letter is a vowel.                                    *)
(***************************************************************************)
Tok(tx, pos, tag, dep, hpos, hdep, htext, ch, vowel) ==
    [text |-> tx, pos |-> pos, tag |-> tag, dep |-> dep, headPos |-> hpos,
     headDep |-> hdep, headText |-> htext, children |-> ch, vowel |-> vowel]

\* Annotated tokens the documents of the model are built from
Lexicon ==
    { Tok("goes",    "VERB", "VBZ", "ROOT",    "VERB", "ROOT", "goes",    <<"she">>,         FALSE),
      Tok("played",  "VERB", "VBD", "ROOT",    "VERB", "ROOT", "played",  <<"they">>,        FALSE),
      Tok("running", "VERB", "VBG", "ROOT",    "VERB", "ROOT", "running", <<"he", "is">>,    FALSE),
      Tok("running", "VERB", "VBG", "ROOT",    "VERB", "ROOT", "running", <<"he", "was">>,   FALSE),
      Tok("lived",   "VERB", "VBN", "ROOT",    "VERB", "ROOT", "lived",   <<"i", "have">>,   FALSE),
      Tok("lived",   "VERB", "VBN", "ROOT",    "VERB", "ROOT", "lived",   <<"i", "had">>,    FALSE),
      Tok("will",    "AUX",  "MD",  "aux",     "VERB", "ROOT", "go",      <<>>,              FALSE),
      Tok("would",   "AUX",  "MD",  "aux",     "VERB", "ROOT", "go",      <<>>,              FALSE),
      Tok("was",     "AUX",  "VBD", "auxpass", "VERB", "ROOT", "built",   <<>>,              FALSE),
      Tok("lives",   "VERB", "VBZ", "relcl",   "NOUN", "nsubj", "man",    <<"who">>,         FALSE),
      Tok("a",       "DET",  "DT",  "det",     "NOUN", "dobj", "apple",   <<>>,              TRUE),
      Tok("an",      "DET",  "DT",  "det",     "NOUN", "dobj", "apple",   <<>>,              TRUE),
      Tok("in",      "ADP",  "IN",  "prep",    "VERB", "ROOT", "goes",    <<"school">>,      TRUE),
      Tok("apple",   "NOUN", "NN",  "dobj",    "VERB", "ROOT", "eats",    <<"an">>,          TRUE),
      Tok("dog",     "NOUN", "NN",  "dobj",    "VERB", "ROOT", "has",     <<"a">>,           FALSE) }

\* Any further token of the document: an alphabetic word that triggers no aspect
FillerTok == Tok("nice", "ADJ", "JJ", "amod", "NOUN", "dobj", "day", <<>>, FALSE)

\* len(doc): the listed tokens, then doc.filler plain words
DocLen(doc) == Len(doc.tokens) + doc.filler

TokenAt(doc, i) == IF i <= Len(doc.tokens) THEN doc.tokens[i] ELSE FillerTok

(***************************************************************************)
(* grammar_analyzer.py: aspect detection                                   *)
(***************************************************************************)
\* for child in token.children: the first child in A gives ra, in B gives rb
RECURSIVE ScanChildren(_, _, _, _, _, _)
ScanChildren(ch, A, ra, B, rb, otherwise) ==
    IF ch = <<>> THEN otherwise
    ELSE IF Head(ch) \in A THEN ra
    ELSE IF Head(ch) \in B THEN rb
    ELSE ScanChildren(Tail(ch), A, ra, B, rb, otherwise)

identify_tense(t) ==
    IF t.text = "will" /\ t.headPos = "VERB" THEN "FUTURE_SIMPLE"
    ELSE IF t.text = "going" /\ "to" \in Range(t.children) THEN "FUTURE_SIMPLE"
    ELSE IF t.text = "would" /\ t.headPos = "VERB" THEN "CONDITIONALS"
    ELSE IF t.pos # "VERB" THEN None
    ELSE IF t.tag \in {"VBP", "VBZ"} THEN "PRESENT_SIMPLE"
    ELSE IF t.tag = "VBD" THEN "PAST_SIMPLE"
    ELSE IF t.tag = "VBG"
         THEN ScanChildren(t.children, {"am", "is", "are"}, "PRESENT_CONTINUOUS",
                           {"was", "were"}, "PAST_CONTINUOUS", "PRESENT_CONTINUOUS")
    ELSE IF t.tag = "VBN"
         THEN ScanChildren(t.children, {"have", "has"}, "PRESENT_PERFECT",
                           {"had"}, "PAST_PERFECT",
                           IF t.headText \in {"have", "has"} THEN "PRESENT_PERFECT"
                           ELSE IF t.headText = "had" THEN "PAST_PERFECT"
                           ELSE "PRESENT_PERFECT")
    ELSE None

assess_tense_correctness(tense) ==
    CASE tense = "PRESENT_SIMPLE"     -> R(85)
      [] tense = "PAST_SIMPLE"        -> R(80)
      [] tense = "PRESENT_CONTINUOUS" -> R(75)
      [] tense = "PAST_CONTINUOUS"    -> R(70)
      [] tense = "PRESENT_PERFECT"    -> R(72)
      [] tense = "PAST_PERFECT"       -> R(68)
      [] tense = "FUTURE_SIMPLE"      -> R(78)
      [] tense = "FUTURE_CONTINUOUS"  -> R(70)
      [] tense = "FUTURE_PERFECT"     -> R(68)
      [] tense = "CONDITIONALS"       -> R(72)
      [] OTHER                        -> R(70)

\* the token at position i is the article; doc[i + 1] is looked at when it exists
assess_article_correctness(doc, i) ==
    IF i + 1 <= DocLen(doc) /\ TokenAt(doc, i + 1).pos = "NOUN"
    THEN LET article == TokenAt(doc, i).text
             vowel   == TokenAt(doc, i + 1).vowel
         IN  IF article = "a" /\ vowel THEN R(40)
             ELSE IF article = "an" /\ ~vowel THEN R(40)
             ELSE R(85)
    ELSE R(70)

assess_preposition_correctness == R(75)

\* the assignment without the "not in aspects" test: the last occurrence wins
PutAlways(aspects, cond, aspect, score) ==
    IF cond THEN DictPut(aspects, aspect, score) ELSE aspects

\* "if <cond> and <aspect> not in aspects: aspects[<aspect>] = <score>"
PutIfAbsent(aspects, cond, aspect, score) ==
    IF cond /\ ~DictHas(aspects, aspect) THEN DictPut(aspects, aspect, score) ELSE aspects

\* "tense = self._identify_tense(token); if tense and tense not in aspects: ..."
PutTense(aspects, tense) ==
    PutIfAbsent(aspects, tense # None, tense, assess_tense_correctness(tense))

\* one iteration of the loop over the tokens: the six checks in source order
ScanTokenChecks(aspects, doc, i, t) ==
    PutIfAbsent(
      PutIfAbsent(
        PutIfAbsent(
          PutIfAbsent(
            PutIfAbsent(
              PutTense(aspects, identify_tense(t)),
              t.text \in {"a", "an", "the"}, "ARTICLES", assess_article_correctness(doc, i)),
            t.pos = "ADP", "PREPOSITIONS", assess_preposition_correctness),
          t.tag = "MD", "MODAL_VERBS", R(80)),
        t.dep = "auxpass" \/ (t.headDep = "auxpass" /\ t.pos = "VERB"), "PASSIVE_VOICE", R(85)),
      t.dep = "relcl", "RELATIVE_CLAUSES", R(80))

ScanToken(aspects, doc, i) == ScanTokenChecks(aspects, doc, i, TokenAt(doc, i))

RECURSIVE ScanFrom(_, _, _)
ScanFrom(aspects, doc, i) ==
    IF i > Len(doc.tokens) THEN aspects
    ELSE ScanFrom(ScanToken(aspects, doc, i), doc, i + 1)

\* the filler words after the listed tokens trigger nothing, the scan ends with them
analyze_used_grammar_aspects(doc) ==
    IF DocLen(doc) = 0 THEN EmptyDict ELSE ScanFrom(EmptyDict, doc, 1)

(***************************************************************************)
(* grammar_checker.py: GrammarCheckService.  A rule id is modelled by its  *)
(* name and the keys of error_mapping that occur in it as substrings.      *)
(* The collaborator's behaviour during one analysis is the record          *)
(*   tool     whether LanguageTool could be constructed (self.tool)        *)
(*   check    "ok" or "raise": the tool.check call of check_text           *)
(*   matches  the rule ids tool.check returns                              *)
(*   correct  "ok" or "raise": the tool.correct call of check_text         *)
(*   recheck  "ok" or "raise": the tool.check call of calculate_grammar_score *)
(***************************************************************************)
error_mapping ==
    << <<"ENGLISH_WORD_REPEAT_RULE", "VOCABULARY_USAGE">>,
       <<"UPPERCASE_SENTENCE_START", "SENTENCE_STRUCTURE">>,
       <<"SENTENCE_WHITESPACE",      "SENTENCE_STRUCTURE">>,
       <<"ARTICLE",                  "ARTICLES">>,
       <<"TENSE",                    "PRESENT_SIMPLE">>,
       <<"PREPOSITION",              "PREPOSITIONS">>,
       <<"CONFUSED_WORDS",           "VOCABULARY_USAGE">>,
       <<"COLLOCATIONS",             "VOCABULARY_COLLOCATIONS">>,
       <<"AGREEMENT",                "SENTENCE_STRUCTURE">>,
       <<"TYPOGRAPHY",               "SENTENCE_STRUCTURE">>,
       <<"COMMA",                    "SENTENCE_STRUCTURE">> >>

RECURSIVE MapFrom(_, _)
MapFrom(rule, i) ==
    IF i > Len(error_mapping) THEN "SENTENCE_STRUCTURE"
    ELSE IF error_mapping[i][1] \in rule.has THEN error_mapping[i][2]
    ELSE MapFrom(rule, i + 1)

map_rule_to_aspect(rule) ==
    IF rule.id = "" THEN "SENTENCE_STRUCTURE" ELSE MapFrom(rule, 1)

\* the test with strip() left out: only the empty string is blank
IsBlankWithoutStrip(t) == t.kind = "empty"

\* not text or not text.strip()
IsBlank(t) == t.kind \in {"empty", "spaces"}

\* word_count: the entry of extras, <<>> while extras has none
EmptyCheck == [total_errors |-> 0, errors_by_aspect |-> EmptyDict, word_count |-> <<>>]

RECURSIVE Bucket(_, _, _)
Bucket(byAspect, matches, i) ==
    IF i > Len(matches) THEN byAspect
    ELSE LET aspect == map_rule_to_aspect(matches[i])
             sofar  == IF DictHas(byAspect, aspect) THEN byAspect.val[aspect] ELSE <<>>
         IN  Bucket(DictPut(byAspect, aspect, Append(sofar, matches[i].id)), matches, i + 1)

\* [raised, res]: tool.correct is called outside the try block
check_text(t, lt) ==
    IF IsBlank(t) \/ ~lt.tool THEN [raised |-> FALSE, res |-> EmptyCheck]
    ELSE IF lt.check = "raise" THEN [raised |-> FALSE, res |-> EmptyCheck]
    ELSE IF lt.correct = "raise" THEN [raised |-> TRUE, res |-> EmptyCheck]
    ELSE [raised |-> FALSE,
          res |-> [total_errors     |-> Len(lt.matches),
                   errors_by_aspect |-> Bucket(EmptyDict, lt.matches, 1),
                   word_count       |-> <<>>]]

\* t.heur: lower-case sentence starts plus doubled punctuation marks in the text
fallback_grammar_score(t, word_count) ==
    IF word_count = 0 THEN R(100)
    ELSE IF t.heur = 0 THEN R(95)
    ELSE IF t.heur * 100 < 2 * word_count THEN R(85)
    ELSE IF t.heur * 100 < 5 * word_count THEN R(75)
    ELSE IF t.heur * 10 < word_count THEN R(65)
    ELSE R(55)

calculate_grammar_score(t, word_count, lt) ==
    IF IsBlank(t) \/ word_count = 0 \/ ~lt.tool THEN R(100)
    ELSE IF lt.recheck = "raise" THEN fallback_grammar_score(t, word_count)
    ELSE LET total_errors == Len(lt.matches)
         IN  IF total_errors = 0 THEN R(100)
             ELSE IF total_errors * 100 < word_count THEN R(90)
             ELSE IF total_errors * 100 < 3 * word_count THEN R(80)
             ELSE IF total_errors * 100 < 5 * word_count THEN R(70)
             ELSE IF total_errors * 10 < word_count THEN R(60)
             ELSE R(50)

(***************************************************************************)
(* grammar_analyzer.py: scores                                             *)
(***************************************************************************)
per_aspect_penalty_step == 5
per_aspect_max_penalty == 20
global_max_penalty == 15
ScoreFloor == 30

\* the penalty with step and cap exchanged
aspect_penalty_step_as_cap(n_errors) ==
    RMin(R(per_aspect_penalty_step), R(n_errors * per_aspect_max_penalty))

\* penalty = min(per_max, len(errors) * per_step)
aspect_penalty(n_errors) ==
    RMin(R(per_aspect_max_penalty), R(n_errors * per_aspect_penalty_step))

\* max(30.0, adjusted[aspect] - penalty), with the sign of the penalty slipped
adjusted_score_sign_slip(score, n_errors) ==
    RMax(R(ScoreFloor), RAdd(score, aspect_penalty(n_errors)))

\* max(30.0, adjusted[aspect] - penalty)
adjusted_score(score, n_errors) ==
    RMax(R(ScoreFloor), RSub(score, aspect_penalty(n_errors)))

\* the loop body without the membership test: every bucket gets a key
adjust_entry_any_aspect(adjusted, aspect, n_errors) ==
    DictPut(adjusted, aspect,
            adjusted_score(IF DictHas(adjusted, aspect) THEN adjusted.val[aspect] ELSE R(100),
                           n_errors))

\* if aspect in adjusted: adjusted[aspect] = ...
adjust_entry(adjusted, aspect, n_errors) ==
    IF DictHas(adjusted, aspect)
    THEN DictPut(adjusted, aspect, adjusted_score(adjusted.val[aspect], n_errors))
    ELSE adjusted

RECURSIVE AdjustFrom(_, _, _)
AdjustFrom(adjusted, byAspect, i) ==
    IF i > Len(byAspect.keys) THEN adjusted
    ELSE LET aspect == byAspect.keys[i]
         IN  AdjustFrom(adjust_entry(adjusted, aspect, Len(byAspect.val[aspect])),
                        byAspect, i + 1)

adjust_scores_with_languagetool(used_aspects, grammar_check_result) ==
    AdjustFrom(used_aspects, grammar_check_result.errors_by_aspect, 1)

identify_unused_aspects(used_aspects) == all_aspects \ Range(used_aspects.keys)

\* a sentence is given by what the any()/sum() expressions over its tokens yield
SentenceScore(sent) ==
    IF sent.has_subject /\ sent.has_verb /\ sent.has_object THEN 90
    ELSE IF sent.has_subject /\ sent.has_verb THEN 75
    ELSE IF sent.has_verb THEN 60
    ELSE 40

RECURSIVE SumSeq(_, _)
SumSeq(s, i) == IF i > Len(s) THEN 0 ELSE s[i] + SumSeq(s, i + 1)

analyze_sentence_structure(doc) ==
    IF doc.sents = <<>> THEN R(60)
    ELSE Norm(SumSeq([i \in DOMAIN doc.sents |-> SentenceScore(doc.sents[i])], 1),
              Len(doc.sents))

IsComplex(sent) == sent.sub_clauses > 0 \/ sent.complex_conjs \/ sent.non_finite > 1

analyze_sentence_complexity(doc) ==
    IF doc.sents = <<>> THEN R(0)
    ELSE Norm(Cardinality({i \in DOMAIN doc.sents : IsComplex(doc.sents[i])}) * 100,
              Len(doc.sents))

calculate_grammatical_accuracy(used_aspects, grammar_score) ==
    IF used_aspects.keys = <<>> THEN RMax(R(ScoreFloor), RTimes(grammar_score, 8, 10))
    ELSE RAdd(RTimes(Mean(used_aspects.val), 6, 10), RTimes(grammar_score, 4, 10))

\* the blend taken from the no-aspect branch also when a single aspect was used
grammar_blend_single_as_none(used_aspects, structure_score, accuracy_score) ==
    IF Len(used_aspects.keys) <= 1
    THEN RAdd(RTimes(structure_score, 7, 10), RTimes(accuracy_score, 3, 10))
    ELSE RAdd(RAdd(RTimes(Mean(used_aspects.val), 5, 10), RTimes(structure_score, 3, 10)),
              RTimes(accuracy_score, 2, 10))

\* base of _calculate_overall_grammar, weights from GRAMMAR_WEIGHTS
grammar_blend(used_aspects, structure_score, accuracy_score) ==
    IF used_aspects.keys = <<>>
    THEN RAdd(RTimes(structure_score, 7, 10), RTimes(accuracy_score, 3, 10))
    ELSE RAdd(RAdd(RTimes(Mean(used_aspects.val), 5, 10), RTimes(structure_score, 3, 10)),
              RTimes(accuracy_score, 2, 10))

\* the global penalty with max written for min
global_penalty_max_for_min(total_errors) ==
    RMax(R(global_max_penalty), RTimes(R(total_errors), 15, 10))

\* penalty = min(global_max_penalty, float(total_errors) * 1.5)
global_penalty(total_errors) ==
    RMin(R(global_max_penalty), RTimes(R(total_errors), 15, 10))

calculate_overall_grammar(used_aspects, structure_score, accuracy_score, grammar_check_result) ==
    RMax(R(ScoreFloor),
         RSub(grammar_blend(used_aspects, structure_score, accuracy_score),
              global_penalty(grammar_check_result.total_errors)))

(***************************************************************************)
(* GrammarAnalyzer.analyze                                                 *)
(***************************************************************************)
EmptyAnalysis ==
    [used_aspects |-> EmptyDict, sentence_structure |-> R(60), sentence_complexity |-> R(0),
     grammatical_accuracy |-> R(100), overall_grammar |-> R(60),
     unused_aspects |-> all_aspects, grammar_check_result |-> EmptyCheck]

\* lines 118-139: the result assembled from the parts
AnalysisOf(t, check_res, used, structure, accuracy) ==
    [used_aspects |-> used,
     sentence_structure |-> structure,
     sentence_complexity |-> analyze_sentence_complexity(t),
     grammatical_accuracy |-> accuracy,
     overall_grammar |-> calculate_overall_grammar(used, structure, accuracy, check_res),
     unused_aspects |-> identify_unused_aspects(used),
     grammar_check_result |-> [check_res EXCEPT !.word_count = <<DocLen(t)>>]]

\* lines 90-116: the adjusted aspects, then structure and accuracy from them
AnalyzeScored(t, check_res, used, grammar_score) ==
    AnalysisOf(t, check_res, used, analyze_sentence_structure(t),
               calculate_grammatical_accuracy(used, grammar_score))

\* lines 87-88 and on: what follows the call of check_text
AnalyzeChecked(t, lt, checked) ==
    IF checked.raised
    THEN [status |-> "raised", ga |-> None, calls |-> <<"check_text">>]
    ELSE [status |-> "returned",
          ga |-> AnalyzeScored(t, checked.res,
                     adjust_scores_with_languagetool(analyze_used_grammar_aspects(t),
                                                     checked.res),
                     calculate_grammar_score(t, DocLen(t), lt)),
          calls |-> <<"check_text", "calculate_grammar_score">>]

\* [status, ga, calls]: calls lists the GrammarCheckService methods invoked
GrammarAnalyze(t, lt) ==
    IF IsBlank(t) THEN [status |-> "returned", ga |-> EmptyAnalysis, calls |-> <<>>]
    ELSE AnalyzeChecked(t, lt, check_text(t, lt))

(***************************************************************************)
(* Inputs of the grammar analysis                                          *)
(***************************************************************************)
MaxTokens == 2
MaxMatches == 2

SeqsUpTo(S, n) == UNION {[1..k -> S] : k \in 0..n}

Sent(subj, verb, obj, sub, conj, nonfin) ==
    [has_subject |-> subj, has_verb |-> verb, has_object |-> obj,
     sub_clauses |-> sub, complex_conjs |-> conj, non_finite |-> nonfin]

\* doc.sents of the documents of the model
SentenceLists ==
    { <<>>,
      <<Sent(TRUE, TRUE, TRUE, 0, FALSE, 0)>>,
      <<Sent(TRUE, TRUE, TRUE, 0, FALSE, 0), Sent(TRUE, TRUE, FALSE, 1, FALSE, 0)>>,
      <<Sent(FALSE, TRUE, FALSE, 0, TRUE, 0), Sent(FALSE, FALSE, FALSE, 0, FALSE, 2),
        Sent(TRUE, TRUE, TRUE, 0, FALSE, 1)>> }

Fillers == {0, 30, 120}

Rule(id, has) == [id |-> id, has |-> has]

Rules ==
    { Rule("ARTICLE_MISSING", {"ARTICLE"}),
      Rule("TENSE_AGREEMENT", {"TENSE", "AGREEMENT"}),
      Rule("COMMA_PARENTHESIS_WHITESPACE", {"COMMA", "SENTENCE_WHITESPACE"}) }

BlankText(kind) == [kind |-> kind, tokens |-> <<>>, filler |-> 0, sents |-> <<>>, heur |-> 0]

DocText(tokens, filler, sents, heur) ==
    [kind |-> "doc", tokens |-> tokens, filler |-> filler, sents |-> sents, heur |-> heur]

Checker(tool, check, matches, correct, recheck) ==
    [tool |-> tool, check |-> check, matches |-> matches, correct |-> correct,
     recheck |-> recheck]

\* every behaviour of the collaborator, up to the calls that are never made
Checkers ==
    {Checker(FALSE, "ok", <<>>, "ok", "ok")}
    \cup {Checker(TRUE, "ok", m, "ok", r) : m \in SeqsUpTo(Rules, MaxMatches), r \in {"ok", "raise"}}
    \cup {Checker(TRUE, "ok", m, "raise", "ok") : m \in SeqsUpTo(Rules, MaxMatches)}
    \cup {Checker(TRUE, "raise", m, "ok", r) : m \in SeqsUpTo(Rules, MaxMatches), r \in {"ok", "raise"}}

\* the checker works and finds nothing; analyze_again adds the matches
CleanChecker == Checker(TRUE, "ok", <<>>, "ok", "ok")

\* reports MaxErrors article errors and a punctuation error: enough for the cap of the
\* per-aspect penalty and for the cap of the global one
MaxErrors == 11

ManyErrorsChecker ==
    Checker(TRUE, "ok",
            [i \in 1..MaxErrors |-> Rule("ARTICLE_MISSING", {"ARTICLE"})]
                \o <<Rule("COMMA_PARENTHESIS_WHITESPACE", {"COMMA", "SENTENCE_WHITESPACE"})>>,
            "ok", "ok")

\* a 95-word text: every token list, one full sentence
DocTexts ==
    {DocText(tk, 95, <<Sent(TRUE, TRUE, TRUE, 0, FALSE, 0)>>, 0) :
        tk \in SeqsUpTo(Lexicon, MaxTokens)}

\* 95-word texts that start with an article, a noun and another article
RepeatedArticleTexts ==
    {DocText(<<x, n, y>>, 92, <<Sent(TRUE, TRUE, TRUE, 0, FALSE, 0)>>, 0) :
        x, y \in {t \in Lexicon : t.text \in {"a", "an"}},
        n \in {t \in Lexicon : t.pos = "NOUN"}}

\* blank texts; texts of every length with at most one listed token; texts of every
\* length, sentence list and fallback-heuristics count without listed tokens
ShortTexts ==
    {BlankText("empty"), BlankText("spaces")}
    \cup {DocText(tk, f, <<Sent(TRUE, TRUE, TRUE, 0, FALSE, 0)>>, 0) :
              tk \in SeqsUpTo(Lexicon, 1), f \in Fillers}
    \cup {DocText(<<>>, f, s, h) : f \in Fillers, s \in SentenceLists, h \in {0, 3}}

NotCalled == [status |-> "none", ga |-> None, calls |-> <<>>]

(***************************************************************************)
(* diagnostic_engine.py / question_bank.py: DiagnosticEngine.  A question  *)
(* is its id, type, aspect and difficulty; an AnalysisResult is the part   *)
(* the engine reads: grammar.used_aspects, grammar.unused_aspects and      *)
(* preliminary_cefr.                                                       *)
(***************************************************************************)
CEFRLevel == <<"A1", "A2", "B1", "B2", "C1", "C2">>

\* difficulty_param and discrimination_param: the defaults of the model class
TestQuestion(id, type, aspect, difficulty) ==
    [id |-> id, type |-> type, aspect |-> aspect, difficulty |-> difficulty,
     difficulty_param |-> <<1, 2>>, discrimination_param |-> <<1, 1>>]

\* the Item Response Theory parameters of a level: (difficulty, discrimination)
irt_params(difficulty) ==
    CASE difficulty = "A1" -> << <<1, 5>>, <<4, 5>> >>
      [] difficulty = "A2" -> << <<2, 5>>, <<1, 1>> >>
      [] difficulty = "B1" -> << <<3, 5>>, <<6, 5>> >>
      [] difficulty = "B2" -> << <<4, 5>>, <<7, 5>> >>
      [] OTHER -> << <<1, 1>>, <<8, 5>> >>

\* sets both parameters of every question, once, when the module is loaded
enhance_questions_with_irt(questions) ==
    [i \in DOMAIN questions |->
        [questions[i] EXCEPT !.difficulty_param = irt_params(questions[i].difficulty)[1],
                             !.discrimination_param = irt_params(questions[i].difficulty)[2]]]

QUESTION_BANK ==
    enhance_questions_with_irt(
    << TestQuestion("g_t_1", "GRAMMAR_TENSES", "PRESENT_SIMPLE", "A1"),
       TestQuestion("g_t_2", "GRAMMAR_TENSES", "PAST_SIMPLE", "A1"),
       TestQuestion("g_t_3", "GRAMMAR_TENSES", "PRESENT_PERFECT", "B1"),
       TestQuestion("g_a_1", "GRAMMAR_ARTICLES", "ARTICLES", "A1"),
       TestQuestion("v_c_1", "VOCABULARY_COMPLEXITY", "PRESENT_SIMPLE", "B2"),
       TestQuestion("v_a_1", "VOCABULARY_APPROPRIATENESS", "PRESENT_SIMPLE", "B1") >>)

\* self.question_bank = question_bank or QUESTION_BANK: None and [] are both falsy
engine_question_bank(arg) == IF arg = None \/ arg = <<>> THEN QUESTION_BANK ELSE arg

Take(s, n) == SubSeq(s, 1, IF Len(s) < n THEN Len(s) ELSE n)

get_questions_by_aspect_and_level(bank, aspect, level, max_questions) ==
    Take(SelectSeq(bank, LAMBDA q : q.aspect = aspect /\ q.difficulty = level), max_questions)

get_questions_by_type_and_level(bank, question_type, level, max_questions) ==
    Take(SelectSeq(bank, LAMBDA q : q.type = question_type /\ q.difficulty = level),
         max_questions)

\* a filter that falls back to the head of the bank when nothing matches
get_questions_by_level_or_any(bank, level, max_questions) ==
    IF SelectSeq(bank, LAMBDA q : q.difficulty = level) = <<>>
    THEN Take(bank, max_questions)
    ELSE Take(SelectSeq(bank, LAMBDA q : q.difficulty = level), max_questions)

get_questions_by_level(bank, level, max_questions) ==
    Take(SelectSeq(bank, LAMBDA q : q.difficulty = level), max_questions)

\* the index of a level in list(CEFRLevel)
LevelIndex(level) == CHOOSE i \in 1..Len(CEFRLevel) : CEFRLevel[i] = level

\* the successor taken modulo the number of levels: after C2 comes A1
get_next_level_wrapping(current_level) ==
    CEFRLevel[(LevelIndex(current_level) % Len(CEFRLevel)) + 1]

get_next_level(current_level) ==
    IF LevelIndex(current_level) + 1 <= Len(CEFRLevel)
    THEN CEFRLevel[LevelIndex(current_level) + 1] ELSE None

\* aspect_to_type.get(aspect)
aspect_to_type(aspect) ==
    CASE aspect \in {"PRESENT_SIMPLE", "PRESENT_CONTINUOUS", "PAST_SIMPLE", "PAST_CONTINUOUS",
                     "PRESENT_PERFECT", "PAST_PERFECT", "FUTURE_SIMPLE", "FUTURE_CONTINUOUS",
                     "FUTURE_PERFECT"} -> "GRAMMAR_TENSES"
      [] aspect = "ARTICLES"     -> "GRAMMAR_ARTICLES"
      [] aspect = "PREPOSITIONS" -> "GRAMMAR_PREPOSITIONS"
      [] OTHER                   -> None

\* the members of GrammarAspect in declaration order
GrammarAspectList ==
    << "PRESENT_SIMPLE", "PRESENT_CONTINUOUS", "PAST_SIMPLE", "PAST_CONTINUOUS",
       "PRESENT_PERFECT", "PAST_PERFECT", "FUTURE_SIMPLE", "FUTURE_CONTINUOUS",
       "FUTURE_PERFECT", "CONDITIONALS", "PASSIVE_VOICE", "MODAL_VERBS",
       "RELATIVE_CLAUSES", "ARTICLES", "PREPOSITIONS", "VOCABULARY_USAGE",
       "VOCABULARY_COLLOCATIONS", "SENTENCE_STRUCTURE" >>

Rotate(s, k) == [i \in 1..Len(s) |-> s[((i + k - 1) % Len(s)) + 1]]

\* list(unused_aspects).  A set of str-valued enum members is iterated in the order
\* of its hash table, and CPython salts str hashes per process: the order is not
\* fixed by the set.  The orders of the model are the rotations of the declaration
\* order.
list_of_set(aspects) ==
    {SelectSeq(Rotate(GrammarAspectList, k), LAMBDA a : a \in aspects) :
        k \in 0..(Len(GrammarAspectList) - 1)}

RECURSIVE unused_aspects_loop(_, _, _)
unused_aspects_loop(bank, level, aspects) ==
    IF aspects = <<>> THEN <<>>
    ELSE (IF aspect_to_type(Head(aspects)) # None
          THEN get_questions_by_aspect_and_level(bank, Head(aspects), level, 1)
          ELSE <<>>)
         \o unused_aspects_loop(bank, level, Tail(aspects))

max_unused_aspects == 4

\* the loop over every unused aspect, without the [:4]
generate_questions_for_all_unused_aspects(bank, result, unused_list) ==
    IF result.grammar.unused_aspects = {} THEN <<>>
    ELSE unused_aspects_loop(bank, result.preliminary_cefr, unused_list)

\* unused_list: list(unused_aspects) as this call iterates the set
generate_questions_for_unused_aspects(bank, result, unused_list) ==
    IF result.grammar.unused_aspects = {} THEN <<>>
    ELSE unused_aspects_loop(bank, result.preliminary_cefr,
                             Take(unused_list, max_unused_aspects))

weak_score_limit == 60

RECURSIVE weak_areas_loop(_, _, _, _)
weak_areas_loop(bank, level, used_aspects, keys) ==
    IF keys = <<>> THEN <<>>
    ELSE (IF RLt(used_aspects.val[Head(keys)], R(weak_score_limit))
          THEN get_questions_by_aspect_and_level(bank, Head(keys), level, 1)
          ELSE <<>>)
         \o weak_areas_loop(bank, level, used_aspects, Tail(keys))

generate_questions_for_weak_areas(bank, result) ==
    weak_areas_loop(bank, result.preliminary_cefr, result.grammar.used_aspects,
                    result.grammar.used_aspects.keys)

generate_level_determination_questions(bank, result) ==
    get_questions_by_level(bank, result.preliminary_cefr, 2)
    \o (IF get_next_level(result.preliminary_cefr) # None
        THEN get_questions_by_level(bank, get_next_level(result.preliminary_cefr), 1)
        ELSE <<>>)

generate_vocabulary_questions(bank, result) ==
    get_questions_by_type_and_level(bank, "VOCABULARY_COMPLEXITY", result.preliminary_cefr, 1)
    \o get_questions_by_type_and_level(bank, "VOCABULARY_APPROPRIATENESS",
                                       result.preliminary_cefr, 1)

\* the lists the four steps of one call return, and list(unused_aspects) as iterated
StepsOf(bank, result, unused_list) ==
    [unused_list |-> unused_list,
     unused |-> generate_questions_for_unused_aspects(bank, result, unused_list),
     weak |-> generate_questions_for_weak_areas(bank, result),
     level |-> generate_level_determination_questions(bank, result),
     vocabulary |-> generate_vocabulary_questions(bank, result)]

\* the candidates of the four steps, in the order they are appended
collect_questions(steps) ==
    steps.unused \o steps.weak \o steps.level \o steps.vocabulary

(***************************************************************************)
(* random.shuffle: Fisher-Yates from the last position down, each index    *)
(* drawn from the generator.  The generator of the model is a small linear *)
(* congruential one in place of Python's Mersenne Twister: what matters is *)
(* that the permutation is a function of the seed and the list length.     *)
(***************************************************************************)
RandModulus == 251
RandMultiplier == 37
RandIncrement == 11

rand_step(s) == (s * RandMultiplier + RandIncrement) % RandModulus

Swap(x, i, j) == [x EXCEPT ![i] = x[j], ![j] = x[i]]

\* for i in reversed(range(1, len(x))): j = randbelow(i + 1); x[i], x[j] = x[j], x[i]
RECURSIVE shuffle_from(_, _, _)
shuffle_from(x, i, s) ==
    IF i < 2 THEN x
    ELSE shuffle_from(Swap(x, i, (rand_step(s) % i) + 1), i - 1, rand_step(s))

shuffle(x, seed) == shuffle_from(x, Len(x), seed)

max_test_questions == 10

\* the first 11 kept for the first 10
first_eleven_questions(questions) == Take(questions, max_test_questions + 1)

\* questions[:10]
first_questions(questions) == Take(questions, max_test_questions)

QuestionIds(t) == {t.questions[i].id : i \in 1..Len(t.questions)}

\* [status, seed, collected, questions]: collected counts the candidates of the call
TestOf(seed, candidates) ==
    [status |-> "returned", seed |-> seed, collected |-> Len(candidates),
     questions |-> first_questions(shuffle(candidates, seed))]

\* the test with the locals of the call kept in steps
TestWithSteps(seed, steps) == TestOf(seed, collect_questions(steps)) @@ [steps |-> steps]

\* random.shuffle applied to the bank itself
question_bank_shuffled_in_place(bank, steps, seed) == shuffle(bank, seed)

\* self.question_bank after a call: questions starts as a new list, every filter builds
\* a new list and slices it, extend copies the references; random.shuffle permutes
\* questions and questions[:10] is a copy; no question object is assigned to
question_bank_after_call(bank, steps, seed) == bank

\* generate_followup_test called right after random.seed(seed), the set of unused
\* aspects iterated as unused_list
generate_followup_test_of(bank, result, unused_list, seed) ==
    TestWithSteps(seed, StepsOf(bank, result, unused_list))

(***************************************************************************)
(* Inputs of the diagnostic engine                                         *)
(***************************************************************************)
MaxUsed == 2
MaxSeed == 1

\* a bank given to the constructor: at level B1 a question for each of four tenses,
\* for articles and for prepositions, two vocabulary questions, one B2 question, a
\* question for an aspect that aspect_to_type does not list, and questions of level
\* C2 and A1
CustomBank ==
    << TestQuestion("c_1", "GRAMMAR_TENSES", "PRESENT_SIMPLE", "B1"),
       TestQuestion("c_2", "GRAMMAR_TENSES", "PRESENT_CONTINUOUS", "B1"),
       TestQuestion("c_3", "GRAMMAR_TENSES", "PAST_SIMPLE", "B1"),
       TestQuestion("c_4", "GRAMMAR_TENSES", "PAST_CONTINUOUS", "B1"),
       TestQuestion("c_5", "GRAMMAR_ARTICLES", "ARTICLES", "B1"),
       TestQuestion("c_6", "GRAMMAR_PREPOSITIONS", "PREPOSITIONS", "B1"),
       TestQuestion("c_7", "VOCABULARY_COMPLEXITY", "PRESENT_SIMPLE", "B1"),
       TestQuestion("c_8", "VOCABULARY_APPROPRIATENESS", "PRESENT_SIMPLE", "B1"),
       TestQuestion("c_9", "GRAMMAR_TENSES", "PRESENT_PERFECT", "B2"),
       TestQuestion("c_10", "GRAMMAR_TENSES", "RELATIVE_CLAUSES", "B1"),
       TestQuestion("c_11", "GRAMMAR_TENSES", "FUTURE_PERFECT", "C2"),
       TestQuestion("c_12", "GRAMMAR_TENSES", "FUTURE_SIMPLE", "A1") >>

BankArguments == {None, <<>>, CustomBank}

Seeds == 0..MaxSeed

\* used aspects of the results: weak scores (below 60) and good ones
UsedEntries ==
    { <<"ARTICLES", R(40)>>, <<"ARTICLES", R(85)>>, <<"PREPOSITIONS", R(40)>>,
      <<"PRESENT_SIMPLE", R(85)>> }

RECURSIVE DictOf(_)
DictOf(entries) ==
    IF entries = <<>> THEN EmptyDict
    ELSE DictPut(DictOf(SubSeq(entries, 1, Len(entries) - 1)),
                 entries[Len(entries)][1], entries[Len(entries)][2])

UsedDicts ==
    {DictOf(e) : e \in {x \in SeqsUpTo(UsedEntries, MaxUsed) :
                           \A i, j \in 1..Len(x) : i # j => x[i][1] # x[j][1]}}

\* the results GrammarAnalyzer can hand over: unused = universe minus used keys
EssayResults ==
    {[grammar |-> [used_aspects |-> u, unused_aspects |-> identify_unused_aspects(u)],
      preliminary_cefr |-> CEFRLevel[l]] : u \in UsedDicts, l \in 1..Len(CEFRLevel)}

(***************************************************************************)
(* More float arithmetic: products, quotients, abs and round(x, 2)         *)
(***************************************************************************)
\* x / y for y > 0
RDiv(x, y) == Norm(x[1] * y[2], x[2] * y[1])

RAbs(x) == IF x[1] < 0 THEN <<-x[1], x[2]>> ELSE x

\* the hundredths nearest to n / d, ties to the even one
RoundHalfEven(n, d) ==
    IF 2 * (n % d) < d THEN n \div d
    ELSE IF 2 * (n % d) > d THEN (n \div d) + 1
    ELSE IF (n \div d) % 2 = 0 THEN n \div d ELSE (n \div d) + 1

\* round(x, 2)
Round2(x) == Norm(RoundHalfEven(x[1] * 100, x[2]), 100)

(***************************************************************************)
(* vocabulary_analyzer.py / wordnet_analyzer.py.  Both read the annotated  *)
(* text; the model hands them what they read of it, the record lexis:      *)
(*   alpha       number of alphabetic tokens (one lemma each)              *)
(*   words       number of alphabetic tokens that are not stop words       *)
(*   types       number of distinct ones among them                        *)
(*   herdan_c, maas_inv, mtld, hdd                                         *)
(*               values of the log / sqrt / power formulas of lines        *)
(*               239-286 on those words                                    *)
(*   level_counts  CEFR level -> lemmas found in that level's word list    *)
(*   rare        lemmas counted as rare by _rare_word_ratio                *)
(*   informal, academic   lemmas in INFORMAL_WORDS / in ACADEMIC_HINTS     *)
(*   content     tokens tagged NOUN, VERB, ADJ or ADV, alphabetic or not   *)
(*   pron, intj  alphabetic tokens tagged PRON / INTJ                      *)
(*   avg_word_len  round(mean(len(lemma)), 2), 0 without lemmas            *)
(*   lexical_errors, collocation_errors   lengths of the two error lists   *)
(*   wn_types    per distinct content lemma the WordNet answer: number of  *)
(*               synsets, number of other lemma names in them              *)
(*   wn_related  the pairs {i, j} of them with a similarity or a shared    *)
(*               lemma name in WordNet                                     *)
(***************************************************************************)
\* {k: v for k, v in level_counts.items() if v > 0}
analyze_vocabulary_levels(lx) ==
    [l \in {x \in Range(CEFRLevel) : lx.level_counts[x] > 0} |-> lx.level_counts[l]]

\* _scale: linear map of [lo, hi] onto [0, 1], cut at 0 and 1
scale(x, lo, hi) ==
    IF RLe(hi, lo) THEN R(0)
    ELSE RMax(R(0), RMin(R(1), RDiv(RSub(x, lo), RSub(hi, lo))))

min_diversity_words == 10

\* mean of the five scaled metrics, times 100, rounded
calculate_lexical_diversity(lx) ==
    IF lx.words < min_diversity_words THEN R(35)
    ELSE Round2(RTimes(
             RAdd(RAdd(RAdd(RAdd(scale(Norm(lx.types, lx.words), <<1, 4>>, <<4, 5>>),
                                 scale(lx.herdan_c, <<1, 2>>, <<6, 5>>)),
                            scale(lx.maas_inv, <<1, 2>>, R(4))),
                       scale(lx.mtld, R(10), R(150))),
                  scale(lx.hdd, <<1, 5>>, <<9, 10>>)),
             100, 5))

RECURSIVE level_total(_, _)
level_total(dist, i) ==
    IF i > Len(CEFRLevel) THEN 0
    ELSE (IF CEFRLevel[i] \in DOMAIN dist THEN dist[CEFRLevel[i]] ELSE 0)
         + level_total(dist, i + 1)

\* sum(level_distribution.get(l, 0) * weights[l] for l in CEFRLevel), weights 1..6
RECURSIVE level_wsum(_, _)
level_wsum(dist, i) ==
    IF i > Len(CEFRLevel) THEN 0
    ELSE (IF CEFRLevel[i] \in DOMAIN dist THEN dist[CEFRLevel[i]] * i ELSE 0)
         + level_wsum(dist, i + 1)

cefr_score(dist) ==
    IF DOMAIN dist # {}
    THEN RTimes(Norm(level_wsum(dist, 1), level_total(dist, 1) * 6), 100, 1)
    ELSE R(30)

rare_word_ratio(lx) == IF lx.alpha = 0 THEN R(0) ELSE Norm(lx.rare, lx.alpha)

\* rare_bonus = min(30.0, max(0.0, (rare_ratio - 0.2) * 75.0))
calculate_lexical_sophistication(dist, lx) ==
    Round2(RMin(R(100),
                RAdd(RTimes(cefr_score(dist), 75, 100),
                     RTimes(RMin(R(30), RMax(R(0), RTimes(RSub(rare_word_ratio(lx), <<1, 5>>),
                                                          75, 1))),
                            25, 100))))

content_word_ratio(lx) == IF lx.alpha = 0 THEN R(0) ELSE Norm(lx.content, lx.alpha)

\* max(0.0, content_ratio * 100 - (pronouns + interj) * 2)
formality(lx) ==
    RMax(R(0), RSub(RTimes(content_word_ratio(lx), 100, 1), R((lx.pron + lx.intj) * 2)))

\* informal_ratio > 0.12, academic_ratio > 0.08, academic_ratio > 0.04
appropriateness_base(lx) ==
    IF lx.informal * 100 > 12 * lx.alpha THEN R(55)
    ELSE IF lx.academic * 100 > 8 * lx.alpha THEN R(88)
    ELSE IF lx.academic * 100 > 4 * lx.alpha THEN R(80)
    ELSE R(70)

analyze_word_appropriateness(lx) ==
    IF lx.alpha = 0 THEN R(70)
    ELSE RMax(R(35), RMin(R(100), RAdd(RTimes(appropriateness_base(lx), 7, 10),
                                        RTimes(RMin(R(95), formality(lx)), 3, 10))))

\* pos_profile.get(tag, 0.0): the rounded share of the alphabetic tokens, in percent
pos_profile(lx, count) ==
    Round2(RTimes(Norm(count, IF lx.alpha = 0 THEN 1 ELSE lx.alpha), 100, 1))

pos_component(lx) ==
    RMax(R(40),
         RMin(R(95),
              RSub(RTimes(content_word_ratio(lx), 100, 1),
                   RMin(R(20), RTimes(RAdd(pos_profile(lx, lx.pron), pos_profile(lx, lx.intj)),
                                      8, 10)))))

\* WordNetAnalyzer._synonyms: lemma names of the synsets of the word, none without synsets
synonyms(w) == IF w.synsets = 0 THEN 0 ELSE w.synonyms

synonym_score(n) ==
    IF n > 10 THEN 100 ELSE IF n > 5 THEN 80 ELSE IF n > 2 THEN 60 ELSE IF n > 0 THEN 40 ELSE 20

polysemy_score_zero_without_synsets(n) ==
    IF n > 5 THEN 100 ELSE IF n > 3 THEN 75 ELSE IF n > 1 THEN 50 ELSE IF n > 0 THEN 25 ELSE 0

polysemy_score(n) ==
    IF n > 5 THEN 100 ELSE IF n > 3 THEN 75 ELSE IF n > 1 THEN 50 ELSE 25

calculate_synonym_diversity(types) ==
    IF types = <<>> THEN R(0)
    ELSE Norm(SumSeq([i \in DOMAIN types |-> synonym_score(synonyms(types[i]))], 1), Len(types))

calculate_polysemy_score(types) ==
    IF types = <<>> THEN R(0)
    ELSE Norm(SumSeq([i \in DOMAIN types |-> polysemy_score(types[i].synsets)], 1), Len(types))

synsets_cached_any_word(cache, types, i) ==
    IF DOMAIN cache # {} THEN cache[CHOOSE k \in DOMAIN cache : \A m \in DOMAIN cache : k <= m]
    ELSE types[i].synsets

\* _synsets_cached(word) under lru_cache: the number of synsets kept for the word where
\* an entry is kept, else WordNet's answer; a word is the position of its lemma
synsets_cached(cache, types, i) ==
    IF i \in DOMAIN cache THEN cache[i] ELSE types[i].synsets

\* the cache after an analysis of the lemmas: every one of them has its entry
synsets_cache_after(cache, types) ==
    [i \in DOMAIN cache \cup DOMAIN types |-> synsets_cached(cache, types, i)]

\* what the WordNet analyzer reads of the text through the cache
through_cache(cache, lx) ==
    [lx EXCEPT !.wn_types =
        [i \in DOMAIN @ |-> [@[i] EXCEPT !.synsets = synsets_cached(cache, lx.wn_types, i)]]]

\* _are_words_related: the loops over the synsets of both words find a relation
are_words_related(lx, i, j) ==
    lx.wn_types[i].synsets > 0 /\ lx.wn_types[j].synsets > 0 /\ {i, j} \in lx.wn_related

WordPairs(n) == {{i, j} : i, j \in 1..n} \ {{i} : i \in 1..n}

Connected(lx) ==
    {p \in WordPairs(Len(lx.wn_types)) :
        \E i, j \in p : i < j /\ are_words_related(lx, i, j)}

calculate_semantic_density(lx) ==
    IF Len(lx.wn_types) < 2 THEN R(0)
    ELSE RMin(R(100), RTimes(Norm(Cardinality(Connected(lx)),
                                  Cardinality(WordPairs(Len(lx.wn_types)))), 100, 1))

analyze_lexical_richness(lx) ==
    [synonym_diversity |-> calculate_synonym_diversity(lx.wn_types),
     polysemy_score |-> calculate_polysemy_score(lx.wn_types),
     semantic_density |-> calculate_semantic_density(lx)]

\* 0.55 * wn_div + 0.30 * wn_poly + 0.15 * wn_sem
wordnet_component(wn) ==
    RAdd(RAdd(RTimes(wn.synonym_diversity, 55, 100), RTimes(wn.polysemy_score, 30, 100)),
         RTimes(wn.semantic_density, 15, 100))

stability_component(diversity, sophistication, appropriateness, rare_ratio, avg_word_len) ==
    RMax(R(30),
         RMin(R(95),
              RSub(RSub(RMax(R(0),
                             RSub(R(100),
                                  RSub(RMax(RMax(diversity, sophistication), appropriateness),
                                       RMin(RMin(diversity, sophistication), appropriateness)))),
                        RMax(R(0), RTimes(RSub(rare_ratio, <<35, 100>>), 60, 1))),
                   RMax(R(0), RTimes(RSub(avg_word_len, <<85, 10>>), 6, 1)))))

\* the weighted sum of the six components, weights from WEIGHTS
vocabulary_base(diversity, sophistication, appropriateness, lx, wn) ==
    RAdd(RAdd(RAdd(RAdd(RAdd(RTimes(diversity, 22, 100),
                             RTimes(sophistication, 28, 100)),
                        RTimes(appropriateness, 20, 100)),
                   RTimes(pos_component(lx), 10, 100)),
              RTimes(wordnet_component(wn), 15, 100)),
         RTimes(stability_component(diversity, sophistication, appropriateness,
                                    rare_word_ratio(lx), lx.avg_word_len), 5, 100))

\* min(max_total, 2.5 per lexical error + 1.5 per collocation error)
vocabulary_penalty(lx) ==
    RMin(R(25), RAdd(RTimes(R(lx.lexical_errors), 25, 10),
                     RTimes(R(lx.collocation_errors), 15, 10)))

\* bonus_map of the highest level of the distribution
level_bonus(dist) ==
    CASE "C2" \in DOMAIN dist -> 24
      [] "C2" \notin DOMAIN dist /\ "C1" \in DOMAIN dist -> 18
      [] {"C2", "C1"} \cap DOMAIN dist = {} /\ "B2" \in DOMAIN dist -> 12
      [] {"C2", "C1", "B2"} \cap DOMAIN dist = {} /\ "B1" \in DOMAIN dist -> 8
      [] {"C2", "C1", "B2", "B1"} \cap DOMAIN dist = {} /\ "A2" \in DOMAIN dist -> 4
      [] OTHER -> 0

\* the bonus added without the cap at 100
with_level_bonus_uncapped(dist, final) ==
    IF DOMAIN dist # {} THEN RAdd(final, R(level_bonus(dist))) ELSE final

\* if level_distribution: final = min(100.0, final + bonus)
with_level_bonus(dist, final) ==
    IF DOMAIN dist # {} THEN RMin(R(100), RAdd(final, R(level_bonus(dist)))) ELSE final

calculate_overall_vocabulary(dist, diversity, sophistication, appropriateness, lx, wn) ==
    Round2(with_level_bonus(dist,
               RMax(R(30), RSub(vocabulary_base(diversity, sophistication, appropriateness,
                                                lx, wn),
                                vocabulary_penalty(lx)))))

VocabularyOf(lx, dist, diversity, sophistication, appropriateness, wn) ==
    [level_distribution |-> dist,
     lexical_diversity |-> diversity,
     lexical_sophistication |-> sophistication,
     word_appropriateness |-> appropriateness,
     lexical_errors |-> lx.lexical_errors,
     collocation_errors |-> lx.collocation_errors,
     overall_vocabulary |->
         calculate_overall_vocabulary(dist, diversity, sophistication, appropriateness, lx, wn),
     wordnet_analysis |-> wn]

\* VocabularyAnalyzer.analyze
VocabularyAnalyze(lx) ==
    VocabularyOf(lx, analyze_vocabulary_levels(lx), calculate_lexical_diversity(lx),
                 calculate_lexical_sophistication(analyze_vocabulary_levels(lx), lx),
                 analyze_word_appropriateness(lx), analyze_lexical_richness(lx))

(***************************************************************************)
(* text_analyzer.py: TextAnalyzer                                          *)
(***************************************************************************)
\* grammar_check_result.get("extras", {}).get("word_count", 0)
extras_word_count(ga) ==
    IF ga.grammar_check_result.word_count = <<>> THEN 0
    ELSE ga.grammar_check_result.word_count[1]

\* max(25, min(95, 40 + min(30, word_count / 5) - min(20, diff / 3)))
calculate_confidence(ga, va) ==
    RMax(R(25),
         RMin(R(95),
              RSub(RAdd(R(40), RMin(R(30), Norm(extras_word_count(ga), 5))),
                   RMin(R(20), RTimes(RAbs(RSub(ga.overall_grammar, va.overall_vocabulary)),
                                      1, 3)))))

\* what follows the two analyzer tasks; an exception of a task reaches the caller
TextAnalyzed(g, va) ==
    IF g.status = "raised"
    THEN [status |-> "raised", grammar |-> None, vocabulary |-> None, confidence |-> None]
    ELSE [status |-> "returned", grammar |-> g.ga, vocabulary |-> va,
          confidence |-> calculate_confidence(g.ga, va)]

\* TextAnalyzer.analyze: blank text gets the empty report
TextAnalyze(t, lt, lx) ==
    IF IsBlank(t)
    THEN [status |-> "returned", grammar |-> None, vocabulary |-> None, confidence |-> R(0)]
    ELSE TextAnalyzed(GrammarAnalyze(t, lt), VocabularyAnalyze(lx))

\* the report built as soon as one task has finished, the empty analysis standing in for
\* a grammar task that has not
report_when_first_finished(tk) ==
    IF tk.grammar.status = "none" \/ tk.grammar.status = "checking"
          \/ (tk.vocabulary # <<>> /\ Head(tk.ran) = "vocabulary")
    THEN TextAnalyzed([status |-> "returned", ga |-> EmptyAnalysis, calls |-> <<>>],
                      tk.vocabulary[1])
    ELSE TextAnalyzed(tk.grammar, tk.vocabulary[1])

\* grammar_result, vocab_result = await asyncio.gather(grammar_task, vocab_task): the
\* results in the order of the arguments, whichever task finished first
report_of_tasks(tk) ==
    IF tk.grammar.status = "raised" THEN TextAnalyzed(tk.grammar, None)
    ELSE TextAnalyzed(tk.grammar, tk.vocabulary[1])

(***************************************************************************)
(* _get_nlp of grammar_analyzer.py, vocabulary_analyzer.py and             *)
(* wordnet_analyzer.py, each under its own lru_cache(maxsize=1), and the   *)
(* constructors that call them.  A Language object is its position in      *)
(* nlp_instances, where its kind is kept: "model" for the loaded           *)
(* en_core_web_sm, "blank" for spacy.blank("en") with a sentencizer.       *)
(* Position 0 stands for no object: the call raised.                       *)
(***************************************************************************)
load_nlp_without_fallback(model) ==
    IF model = "ok" THEN "model" ELSE "raised"

\* the body of _get_nlp: spacy.load, and spacy.blank("en") where it raises OSError
load_nlp(model) ==
    IF model = "ok" THEN "model" ELSE IF model = "OSError" THEN "blank" ELSE "raised"

\* lru_cache keeps the object returned, nothing where the body raised
nlp_loaded(instances, cache, module, kind) ==
    IF kind = "raised" THEN [instances |-> instances, cache |-> cache, nlp |-> 0]
    ELSE [instances |-> Append(instances, kind),
          cache |-> [m \in DOMAIN cache \cup {module} |->
                        IF m = module THEN Len(instances) + 1 ELSE cache[m]],
          nlp |-> Len(instances) + 1]

\* _get_nlp() of the module: the cached object, else the body runs
get_nlp(instances, cache, module, model) ==
    IF module \in DOMAIN cache
    THEN [instances |-> instances, cache |-> cache, nlp |-> cache[module]]
    ELSE nlp_loaded(instances, cache, module, load_nlp(model))

nlp_assigned(st, class, got) ==
    [instances |-> got.instances, cache |-> got.cache,
     analyzers |-> Append(st.analyzers, [class |-> class, nlp |-> got.nlp]),
     raised |-> got.nlp = 0]

\* self.nlp = _get_nlp() in __init__ of the class; after an exception nothing runs
init_nlp(st, class, module, model) ==
    IF st.raised THEN st
    ELSE nlp_assigned(st, class, get_nlp(st.instances, st.cache, module, model))

GrammarAnalyzer_init(st, model) == init_nlp(st, "GrammarAnalyzer", "grammar_analyzer", model)

WordNetAnalyzer_init(st, model) == init_nlp(st, "WordNetAnalyzer", "wordnet_analyzer", model)

\* self.nlp = _get_nlp(), then self.wordnet_analyzer = WordNetAnalyzer()
VocabularyAnalyzer_init(st, model) ==
    WordNetAnalyzer_init(init_nlp(st, "VocabularyAnalyzer", "vocabulary_analyzer", model), model)

\* GrammarAnalyzer(), then VocabularyAnalyzer()
TextAnalyzer_init(st, model) == VocabularyAnalyzer_init(GrammarAnalyzer_init(st, model), model)

(***************************************************************************)
(* analyzer.py / storage.py: EnglishAnalyzer and MemoryStorage             *)
(***************************************************************************)
min_word_count == 90
max_word_count == 400

\* _validate_text with the lower bound taken as exclusive
validate_text_short_at_minimum(word_count) ==
    IF word_count <= min_word_count THEN "TOO_SHORT"
    ELSE IF word_count > max_word_count THEN "TOO_LONG"
    ELSE "VALID"

\* _validate_text: the status for len(text.split())
validate_text(word_count) ==
    IF word_count < min_word_count THEN "TOO_SHORT"
    ELSE IF word_count > max_word_count THEN "TOO_LONG"
    ELSE "VALID"

\* grammar_score * 0.5 + vocabulary_score * 0.5
calculate_preliminary_score(rep) ==
    RAdd(RTimes(rep.grammar.overall_grammar, 5, 10),
         RTimes(rep.vocabulary.overall_vocabulary, 5, 10))

\* the top of the scale named C2
determine_preliminary_cefr_top_c2(score) ==
    IF RLe(R(85), score) THEN "C2"
    ELSE IF RLe(R(70), score) THEN "B2"
    ELSE IF RLe(R(55), score) THEN "B1"
    ELSE IF RLe(R(40), score) THEN "A2"
    ELSE "A1"

determine_preliminary_cefr(score) ==
    IF RLe(R(85), score) THEN "C1"
    ELSE IF RLe(R(70), score) THEN "B2"
    ELSE IF RLe(R(55), score) THEN "B1"
    ELSE IF RLe(R(40), score) THEN "A2"
    ELSE "A1"

\* aspect: the identifier as the sequence of its parts, "grammar_<aspect.value>" being
\* <<"grammar", aspect>>; confirmed: the default of the model class
WeakArea(aspect, score) == [aspect |-> aspect, score |-> score, confirmed |-> FALSE]

\* the loop over grammar.used_aspects.items(), in insertion order
RECURSIVE weak_aspects(_, _)
weak_aspects(used, i) ==
    IF i > Len(used.keys) THEN <<>>
    ELSE (IF RLt(used.val[used.keys[i]], R(weak_score_limit))
          THEN <<WeakArea(<<"grammar", used.keys[i]>>, used.val[used.keys[i]])>>
          ELSE <<>>)
         \o weak_aspects(used, i + 1)

\* the structural score compared with <= in place of <
identify_weak_areas_at_most_sixty(g, v) ==
    weak_aspects(g.used_aspects, 1)
    \o (IF RLe(g.sentence_structure, R(weak_score_limit))
        THEN <<WeakArea(<<"sentence_structure">>, g.sentence_structure)>> ELSE <<>>)
    \o (IF RLt(v.overall_vocabulary, R(weak_score_limit))
        THEN <<WeakArea(<<"vocabulary_range">>, v.overall_vocabulary)>> ELSE <<>>)
    \o (IF v.lexical_errors > 0
        THEN <<WeakArea(<<"lexical_errors">>, RMax(R(40), RSub(v.overall_vocabulary, R(15))))>>
        ELSE <<>>)

identify_weak_areas(g, v) ==
    weak_aspects(g.used_aspects, 1)
    \o (IF RLt(g.sentence_structure, R(weak_score_limit))
        THEN <<WeakArea(<<"sentence_structure">>, g.sentence_structure)>> ELSE <<>>)
    \o (IF RLt(v.overall_vocabulary, R(weak_score_limit))
        THEN <<WeakArea(<<"vocabulary_range">>, v.overall_vocabulary)>> ELSE <<>>)
    \o (IF v.lexical_errors > 0
        THEN <<WeakArea(<<"lexical_errors">>, RMax(R(40), RSub(v.overall_vocabulary, R(15))))>>
        ELSE <<>>)

\* the AnalysisResult built from the report
FinalResult(word_count, rep) ==
    [word_count |-> word_count,
     grammar |-> rep.grammar,
     vocabulary |-> rep.vocabulary,
     preliminary_score |-> calculate_preliminary_score(rep),
     preliminary_cefr |-> determine_preliminary_cefr(calculate_preliminary_score(rep)),
     identified_gaps |-> identify_weak_areas(rep.grammar, rep.vocabulary),
     unused_grammar_aspects |-> rep.grammar.unused_aspects]

\* DatabaseStorage.save_analysis: pass
save_analysis_pass(analyses, result) == analyses

\* MemoryStorage.save_analysis: self.analyses.append(result)
save_analysis(analyses, result) == Append(analyses, result)

Outcome(status, validation, word_count) ==
    [status |-> status, validation |-> validation, word_count |-> word_count]

(***************************************************************************)
(* Inputs of the vocabulary analysis: what the analyzers read of a text    *)
(* with alpha alphabetic tokens                                            *)
(***************************************************************************)
MaxTypes == 2

NoLevels == [l \in Range(CEFRLevel) |-> 0]

WordAnswer(synsets, synonym_count) == [synsets |-> synsets, synonyms |-> synonym_count]

\* WordNet answers: unknown word, a few senses, many senses
WordAnswers == {WordAnswer(0, 0), WordAnswer(2, 3), WordAnswer(6, 11)}

\* plain words: mid diversity, no level triggers, all content words
BaseLexis(alpha) ==
    [alpha |-> alpha, words |-> alpha, types |-> alpha,
     herdan_c |-> <<9, 10>>, maas_inv |-> R(2), mtld |-> R(80), hdd |-> <<1, 2>>,
     level_counts |-> NoLevels, rare |-> 0, informal |-> 0, academic |-> 0,
     content |-> alpha, pron |-> 0, intj |-> 0,
     avg_word_len |-> IF alpha = 0 THEN R(0) ELSE <<9, 2>>,
     lexical_errors |-> 0, collocation_errors |-> 0,
     wn_types |-> IF alpha = 0 THEN <<>> ELSE <<WordAnswer(2, 3)>>,
     wn_related |-> {}]

\* every metric at its top: rare academic words of level C2, rich WordNet entries
HighLexis(alpha) ==
    [BaseLexis(alpha) EXCEPT
        !.herdan_c = <<13, 10>>, !.maas_inv = R(5), !.mtld = R(200), !.hdd = R(1),
        !.level_counts = [NoLevels EXCEPT !["C2"] = IF alpha = 0 THEN 0 ELSE 1],
        !.rare = alpha, !.academic = alpha, !.content = 2 * alpha,
        !.wn_types = IF alpha = 0 THEN <<>> ELSE <<WordAnswer(6, 11), WordAnswer(6, 11)>>,
        !.wn_related = IF alpha = 0 THEN {} ELSE {{1, 2}}]

\* every metric at its bottom: one repeated informal pronoun, many errors
LowLexis(alpha) ==
    [BaseLexis(alpha) EXCEPT
        !.types = IF alpha = 0 THEN 0 ELSE 1,
        !.herdan_c = R(0), !.maas_inv = R(0), !.mtld = R(0), !.hdd = R(0),
        !.informal = alpha, !.content = 0, !.pron = alpha,
        !.avg_word_len = IF alpha = 0 THEN R(0) ELSE R(12),
        !.lexical_errors = 20, !.collocation_errors = 20,
        !.wn_types = IF alpha = 0 THEN <<>> ELSE <<WordAnswer(0, 0)>>]

ExtremeLexes(alpha) == {LowLexis(alpha), BaseLexis(alpha), HighLexis(alpha)}

\* the inputs of _calculate_lexical_diversity
DiversityLexes(alpha) ==
    {[BaseLexis(alpha) EXCEPT !.words = w, !.types = IF t = 1 THEN 1 ELSE w,
                              !.herdan_c = h, !.maas_inv = m, !.mtld = l, !.hdd = d] :
        w \in {9, 10, alpha}, t \in {1, 2}, h \in {R(0), <<13, 10>>}, m \in {R(0), R(5)},
        l \in {R(0), R(200)}, d \in {R(0), R(1)}}

\* the inputs of _calculate_lexical_sophistication and of the level bonus
SophisticationLexes(alpha) ==
    {[BaseLexis(alpha) EXCEPT !.level_counts = c, !.rare = r] :
        c \in [Range(CEFRLevel) -> {0, 1}], r \in {0, alpha \div 2, alpha}}

\* the inputs of _analyze_word_appropriateness and of _pos_component
AppropriatenessLexes(alpha) ==
    {[BaseLexis(alpha) EXCEPT !.informal = i, !.academic = a, !.content = c,
                              !.pron = p, !.intj = j] :
        i \in {0, alpha}, a \in {0, alpha \div 20, alpha \div 10, alpha},
        c \in {0, alpha \div 2, alpha, 2 * alpha},
        p \in {0, alpha \div 2}, j \in {0, alpha \div 2}}

\* the WordNet answers for up to MaxTypes distinct content lemmas
WordNetLexes(alpha) ==
    {[BaseLexis(alpha) EXCEPT !.wn_types = t, !.wn_related = r] :
        t \in SeqsUpTo(WordAnswers, MaxTypes), r \in SUBSET WordPairs(MaxTypes)}

\* the inputs of the penalty, the stability component and the bonus cap
OverallLexes(alpha) ==
    {[x EXCEPT !.lexical_errors = e, !.collocation_errors = c, !.avg_word_len = w,
               !.level_counts = [NoLevels EXCEPT ![l] = 1]] :
        x \in {BaseLexis(alpha), HighLexis(alpha)}, e \in {0, 1, 20}, c \in {0, 1, 20},
        w \in {<<9, 2>>, R(12)}, l \in {"A1", "B1", "C2"}}

Lexes(alpha) ==
    ExtremeLexes(alpha) \cup DiversityLexes(alpha) \cup SophisticationLexes(alpha)
    \cup AppropriatenessLexes(alpha) \cup WordNetLexes(alpha) \cup OverallLexes(alpha)

\* no listed token, a present-simple verb, an article
TextTokenLists == {<<>>} \cup {<<t>> : t \in {x \in Lexicon : x.text \in {"goes", "a"}}}

\* a text of n alphabetic tokens that starts with the listed ones, one full sentence
TextOf(tk, n) == DocText(tk, n - Len(tk), <<Sent(TRUE, TRUE, TRUE, 0, FALSE, 0)>>, 0)

TextTexts ==
    {BlankText("empty"), BlankText("spaces"), DocText(<<>>, 0, <<>>, 0)}
    \cup {TextOf(tk, n) : tk \in TextTokenLists, n \in {10, 100, 200}}

\* the checker finds nothing; is not installed; reports two article errors and fails at
\* the second check; fails in tool.correct
\* 100-token texts with every list of listed tokens in front
AnnotatedTexts == {TextOf(tk, 100) : tk \in SeqsUpTo(Lexicon, MaxTokens)}

\* 100-token texts with every sentence list and fallback-heuristics count
SentenceTexts == {DocText(<<>>, 100, s, h) : s \in SentenceLists, h \in {0, 3}}

\* reports two article errors, and fails at the second check
ArticleErrorsChecker ==
    Checker(TRUE, "ok", <<Rule("ARTICLE_MISSING", {"ARTICLE"}),
                           Rule("ARTICLE_MISSING", {"ARTICLE"})>>, "ok", "raise")

\* the checker finds nothing; is not installed; reports two article errors; fails in
\* tool.correct
TextCheckers ==
    {CleanChecker, Checker(FALSE, "ok", <<>>, "ok", "ok"), ArticleErrorsChecker,
     Checker(TRUE, "ok", <<>>, "raise", "ok")}

NoReport == [status |-> "none", grammar |-> None, vocabulary |-> None, confidence |-> None]

NoOutcome == Outcome("none", None, 0)

(***************************************************************************)
(* Inputs of analyze_essay                                                 *)
(***************************************************************************)
MaxWords == 402

\* a text of n whitespace-separated words, all alphabetic; no words: a blank text
EssayTexts(n) ==
    IF n = 0 THEN {BlankText("empty"), BlankText("spaces")}
    ELSE {TextOf(tk, n) : tk \in TextTokenLists}

\* the token of the lexicon with the text
LexTok(tx) == CHOOSE t \in Lexicon : t.text = tx

\* reports four preposition errors
PrepositionErrorsChecker ==
    Checker(TRUE, "ok", [i \in 1..4 |-> Rule("PREPOSITION_VERB", {"PREPOSITION"})], "ok", "ok")

\* essays of n words with a preposition and a wrong article in either order, or a wrong
\* article alone; one sentence that is full, has a verb only, or has nothing
WeakEssayTexts(n) ==
    {DocText(tk, n - Len(tk), <<snt>>, 0) :
        tk \in {<<LexTok("in"), LexTok("a"), LexTok("apple")>>,
                <<LexTok("a"), LexTok("apple"), LexTok("in")>>,
                <<LexTok("an"), LexTok("dog")>>},
        snt \in {Sent(TRUE, TRUE, TRUE, 0, FALSE, 0), Sent(FALSE, TRUE, FALSE, 0, FALSE, 0),
                 Sent(FALSE, FALSE, FALSE, 0, FALSE, 0)}}

(***************************************************************************)
(* SpecGrammar: GrammarAnalyzer.analyze on a text with a behaviour of the  *)
(* rule checker, then again on the same text with one more match reported  *)
(***************************************************************************)
NoTest == [status |-> "none", seed |-> 0, collected |-> 0, questions |-> <<>>]

NoPrev == [status |-> "none", seed |-> 0, ids |-> {}]

\* the diagnostic engine takes no part
DiagIdle ==
    /\ bank_arg = None
    /\ question_bank = QUESTION_BANK
    /\ essay_result = None
    /\ test = NoTest
    /\ prev = NoPrev

\* the essay pipeline takes no part
PipelineIdle ==
    /\ lexis = BaseLexis(0)
    /\ report = NoReport
    /\ words = 0
    /\ storage = <<>>
    /\ outcome = NoOutcome
    /\ synsets_cache = <<>>

\* the analyzers are constructed already: the loaders take no part
LoaderIdle ==
    /\ spacy_model = "ok"
    /\ nlp_instances = <<>>
    /\ nlp_cache = [m \in {} |-> 0]
    /\ analyzers = <<>>

\* the analyzer tasks before TextAnalyzer.analyze created them
\* ran: the steps of the tasks in the order the event loop ran them
NoTasks == [status |-> "none", grammar |-> NotCalled, vocabulary |-> <<>>, ran |-> <<>>]

\* no test session in the database, no call of the service
NoDb == [session |-> <<>>, answers |-> <<>>]

NoRequests == <<>>

\* neither the tasks as steps of their own nor the test sessions take part
ServiceIdle ==
    /\ tasks = NoTasks
    /\ db = NoDb
    /\ requests = NoRequests

InitGrammar ==
    /\ \/ /\ text \in DocTexts \cup RepeatedArticleTexts
          /\ checker \in {CleanChecker, ManyErrorsChecker}
       \/ text \in ShortTexts /\ checker \in Checkers
    /\ grammar = NotCalled
    /\ DiagIdle
    /\ PipelineIdle
    /\ LoaderIdle
    /\ ServiceIdle

analyze ==
    /\ grammar.status = "none"
    /\ grammar' = GrammarAnalyze(text, checker)
    /\ UNCHANGED <<text, checker, question_bank, essay_result, test, prev,
                   lexis, report, words, storage, outcome, synsets_cache, loader_vars,
                   tasks, session_vars, bank_arg>>

\* the same text analysed again, the checker reporting one match more
analyze_again ==
    /\ grammar.status = "returned"
    /\ checker.tool /\ checker.check = "ok" /\ checker.correct = "ok" /\ checker.recheck = "ok"
    /\ Len(checker.matches) < MaxMatches
    /\ \E rule \in Rules :
          /\ checker' = [checker EXCEPT !.matches = Append(@, rule)]
          /\ grammar' = GrammarAnalyze(text, checker')
    /\ UNCHANGED <<text, question_bank, essay_result, test, prev,
                   lexis, report, words, storage, outcome, synsets_cache, loader_vars,
                   tasks, session_vars, bank_arg>>

NextGrammar == analyze \/ analyze_again

SpecGrammar == InitGrammar /\ [][NextGrammar]_vars

(***************************************************************************)
(* SpecDiag: a DiagnosticEngine constructed with a bank argument, then     *)
(* generate_followup_test called on one AnalysisResult and then a second   *)
(* time, each call right after random.seed(seed)                           *)
(***************************************************************************)
InitDiag ==
    /\ text = BlankText("empty") /\ checker = CleanChecker /\ grammar = NotCalled
    /\ bank_arg \in BankArguments
    /\ question_bank = engine_question_bank(bank_arg)
    /\ essay_result \in EssayResults
    /\ test = NoTest
    /\ prev = NoPrev
    /\ PipelineIdle
    /\ LoaderIdle
    /\ ServiceIdle

generate_followup_test ==
    /\ prev.status = "none"
    /\ \E seed \in Seeds, unused_list \in list_of_set(essay_result.grammar.unused_aspects) :
          /\ test' = generate_followup_test_of(question_bank, essay_result, unused_list, seed)
          /\ question_bank' = question_bank_after_call(question_bank, test'.steps, seed)
    /\ prev' = [status |-> test.status, seed |-> test.seed, ids |-> QuestionIds(test)]
    /\ UNCHANGED <<text, checker, grammar, essay_result,
                   lexis, report, words, storage, outcome, synsets_cache, loader_vars,
                   tasks, session_vars, bank_arg>>

NextDiag == generate_followup_test

SpecDiag == InitDiag /\ [][NextDiag]_vars

(***************************************************************************)
(* SpecText: TextAnalyzer.analyze on a text with a behaviour of the rule   *)
(* checker and what the vocabulary analyzers read of the text, and then    *)
(* once more on the same text; prev keeps the report of the first call     *)
(***************************************************************************)
InitText ==
    /\ \/ /\ text \in TextTexts
          /\ checker \in TextCheckers
          /\ lexis \in ExtremeLexes(DocLen(text))
       \/ /\ text = TextOf(<<>>, 100)
          /\ checker = CleanChecker
          /\ lexis \in Lexes(100)
       \/ /\ text \in AnnotatedTexts
          /\ checker \in {CleanChecker, ArticleErrorsChecker}
          /\ lexis = BaseLexis(DocLen(text))
       \/ /\ text \in SentenceTexts
          /\ checker \in TextCheckers
          /\ lexis = BaseLexis(DocLen(text))
    /\ grammar = NotCalled
    /\ DiagIdle
    /\ report = NoReport
    /\ words = 0
    /\ storage = <<>>
    /\ outcome = NoOutcome
    /\ synsets_cache = <<>>
    /\ LoaderIdle
    /\ ServiceIdle

text_analyze ==
    /\ report.status = "none"
    /\ report' = TextAnalyze(text, checker, through_cache(synsets_cache, lexis))
    /\ synsets_cache' = IF IsBlank(text) THEN synsets_cache
                        ELSE synsets_cache_after(synsets_cache, lexis.wn_types)
    /\ UNCHANGED <<text, checker, grammar, question_bank, essay_result, test, prev,
                   lexis, words, storage, outcome, loader_vars, tasks, session_vars, bank_arg>>

\* the same text analysed once more by the same analyzers: same annotation, same
\* behaviour of the rule checker, same WordNet, the synset cache as the first call left it
text_analyze_again ==
    /\ report.status # "none"
    /\ prev.status = "none"
    /\ prev' = report
    /\ report' = TextAnalyze(text, checker, through_cache(synsets_cache, lexis))
    /\ synsets_cache' = IF IsBlank(text) THEN synsets_cache
                        ELSE synsets_cache_after(synsets_cache, lexis.wn_types)
    /\ UNCHANGED <<text, checker, grammar, question_bank, essay_result, test,
                   lexis, words, storage, outcome, loader_vars, tasks, session_vars, bank_arg>>

NextText == text_analyze \/ text_analyze_again

SpecText == InitText /\ [][NextText]_vars

(***************************************************************************)
(* Spec: EnglishAnalyzer.analyze_essay on a text of any word count, with   *)
(* the engine's static bank and an empty MemoryStorage                     *)
(***************************************************************************)
Init ==
    /\ words \in 0..MaxWords
    /\ \/ /\ text \in EssayTexts(words)
          /\ \/ checker = CleanChecker /\ lexis = BaseLexis(DocLen(text))
             \/ /\ text.tokens = <<>>
                /\ checker \in TextCheckers
                /\ lexis \in ExtremeLexes(DocLen(text))
       \/ /\ words \in {min_word_count, 100}
          /\ text \in WeakEssayTexts(words)
          /\ checker \in {CleanChecker, PrepositionErrorsChecker}
          /\ lexis \in ExtremeLexes(DocLen(text))
    /\ grammar = NotCalled
    /\ bank_arg = None
    /\ question_bank = engine_question_bank(bank_arg)
    /\ essay_result = None
    /\ test = NoTest
    /\ prev = NoPrev
    /\ report = NoReport
    /\ storage = <<>>
    /\ outcome = NoOutcome
    /\ synsets_cache = <<>>
    /\ LoaderIdle
    /\ ServiceIdle

\* validation failed: ValueError, nothing else happens
analyze_essay_rejected ==
    /\ validate_text(words) # "VALID"
    /\ outcome' = Outcome("rejected", validate_text(words), words)
    /\ UNCHANGED <<report, essay_result, storage, test, synsets_cache, question_bank>>

\* the text analysis raised: the exception reaches the caller
analyze_essay_raised ==
    /\ validate_text(words) = "VALID"
    /\ report' = TextAnalyze(text, checker, through_cache(synsets_cache, lexis))
    /\ report'.status = "raised"
    /\ synsets_cache' = synsets_cache_after(synsets_cache, lexis.wn_types)
    /\ outcome' = Outcome("raised", "VALID", words)
    /\ UNCHANGED <<essay_result, storage, test, question_bank>>

\* the result is built, saved and handed to the diagnostic engine
analyze_essay_returned ==
    /\ validate_text(words) = "VALID"
    /\ report' = TextAnalyze(text, checker, through_cache(synsets_cache, lexis))
    /\ report'.status = "returned"
    /\ synsets_cache' = IF IsBlank(text) THEN synsets_cache
                        ELSE synsets_cache_after(synsets_cache, lexis.wn_types)
    /\ essay_result' = FinalResult(words, report')
    /\ storage' = save_analysis(storage, essay_result')
    /\ \E seed \in Seeds, unused_list \in list_of_set(essay_result'.grammar.unused_aspects) :
          /\ test' = generate_followup_test_of(question_bank, essay_result', unused_list, seed)
          /\ question_bank' = question_bank_after_call(question_bank, test'.steps, seed)
    /\ outcome' = Outcome("returned", "VALID", words)

analyze_essay ==
    /\ outcome.status = "none"
    /\ \/ analyze_essay_rejected
       \/ analyze_essay_raised
       \/ analyze_essay_returned
    /\ UNCHANGED <<text, checker, grammar, prev, lexis, words, loader_vars,
                   tasks, session_vars, bank_arg>>

Next == analyze_essay

Spec == Init /\ [][Next]_vars

(***************************************************************************)
(* SpecRuleCheck: GrammarAnalyzer.analyze with the call of the external    *)
(* rule-checking service as a step of its own.  tool.check is a blocking   *)
(* call without a timeout argument: analyze waits at it until the service  *)
(* answers or raises, and a service that never answers ("hang") leaves it  *)
(* waiting.                                                                *)
(***************************************************************************)
\* the service never responds to tool.check
HangingChecker == Checker(TRUE, "hang", <<>>, "ok", "ok")

Checking == [status |-> "checking", ga |-> None, calls |-> <<"check_text">>]

InitRuleCheck ==
    /\ text \in {BlankText("spaces")} \cup {TextOf(<<>>, n) : n \in Fillers}
    /\ checker \in Checkers \cup {HangingChecker}
    /\ grammar = NotCalled
    /\ DiagIdle
    /\ PipelineIdle
    /\ LoaderIdle
    /\ ServiceIdle

\* analyze up to tool.check(text), or to its end where the tool is not called
analyze_call ==
    /\ grammar.status = "none"
    /\ grammar' = IF IsBlank(text) \/ ~checker.tool THEN GrammarAnalyze(text, checker)
                  ELSE Checking
    /\ UNCHANGED <<text, checker, question_bank, essay_result, test, prev,
                   lexis, report, words, storage, outcome, synsets_cache, loader_vars,
                   tasks, session_vars, bank_arg>>

\* the service answers or raises: analyze runs to its end
tool_check_responds ==
    /\ grammar.status = "checking"
    /\ checker.check # "hang"
    /\ grammar' = GrammarAnalyze(text, checker)
    /\ UNCHANGED <<text, checker, question_bank, essay_result, test, prev,
                   lexis, report, words, storage, outcome, synsets_cache, loader_vars,
                   tasks, session_vars, bank_arg>>

NextRuleCheck == analyze_call \/ tool_check_responds

\* tool_check_responds is enabled
ServiceResponds == grammar.status = "checking" /\ checker.check # "hang"

\* the event loop runs analyze, and a service that responds is heard: weak fairness of
\* both actions, the one of tool_check_responds written out (the action disables itself)
SpecRuleCheck ==
    InitRuleCheck /\ [][NextRuleCheck]_vars
    /\ WF_vars(analyze_call) /\ []<>(~ServiceResponds)

(***************************************************************************)
(* SpecTasks: TextAnalyzer.analyze with its two tasks as steps of the      *)
(* event loop.  Neither coroutine awaits, so the loop runs each task in    *)
(* one piece and the grammar task first; the specification allows more:    *)
(* either task first, and the grammar task split at the call of the rule   *)
(* checker with the vocabulary task in between.  gather returns when both  *)
(* tasks are done, or raises as soon as the grammar task has raised, and   *)
(* the vocabulary task then still runs.                                    *)
(***************************************************************************)
InitTasks ==
    /\ \/ /\ text \in TextTexts
          /\ checker \in TextCheckers
          /\ lexis \in ExtremeLexes(DocLen(text))
       \/ /\ text = TextOf(<<>>, 100)
          /\ checker = CleanChecker
          /\ lexis \in WordNetLexes(100)
    /\ grammar = NotCalled
    /\ DiagIdle
    /\ report = NoReport
    /\ words = 0
    /\ storage = <<>>
    /\ outcome = NoOutcome
    /\ synsets_cache = <<>>
    /\ LoaderIdle
    /\ ServiceIdle

\* analyze up to the await: the fixed report for a blank text, else both tasks created
analyze_creates_tasks ==
    /\ report.status = "none"
    /\ tasks.status = "none"
    /\ IF IsBlank(text)
       THEN /\ report' = TextAnalyze(text, checker, lexis)
            /\ tasks' = [tasks EXCEPT !.status = "returned"]
       ELSE /\ tasks' = [tasks EXCEPT !.status = "created"]
            /\ UNCHANGED report
    /\ UNCHANGED <<text, checker, grammar, question_bank, essay_result, test, prev, lexis,
                   words, storage, outcome, synsets_cache, loader_vars, session_vars, bank_arg>>

\* GrammarAnalyzer.analyze up to tool.check, or to its end where the tool is not called
grammar_task_starts ==
    /\ tasks.status = "created"
    /\ tasks.grammar.status = "none"
    /\ tasks' = [tasks EXCEPT !.grammar = IF ~checker.tool THEN GrammarAnalyze(text, checker)
                                          ELSE Checking,
                              !.ran = Append(@, "grammar")]
    /\ UNCHANGED <<text, checker, grammar, question_bank, essay_result, test, prev, lexis,
                   report, words, storage, outcome, synsets_cache, loader_vars,
                   session_vars, bank_arg>>

\* the rest of GrammarAnalyzer.analyze
grammar_task_finishes ==
    /\ tasks.grammar.status = "checking"
    /\ tasks' = [tasks EXCEPT !.grammar = GrammarAnalyze(text, checker),
                              !.ran = Append(@, "grammar")]
    /\ UNCHANGED <<text, checker, grammar, question_bank, essay_result, test, prev, lexis,
                   report, words, storage, outcome, synsets_cache, loader_vars,
                   session_vars, bank_arg>>

\* VocabularyAnalyzer.analyze, the synset cache read and filled
vocabulary_task_runs ==
    /\ tasks.status \in {"created", "raised"}
    /\ tasks.vocabulary = <<>>
    /\ tasks' = [tasks EXCEPT
                    !.vocabulary = <<VocabularyAnalyze(through_cache(synsets_cache, lexis))>>,
                    !.ran = Append(@, "vocabulary")]
    /\ synsets_cache' = synsets_cache_after(synsets_cache, lexis.wn_types)
    /\ UNCHANGED <<text, checker, grammar, question_bank, essay_result, test, prev, lexis,
                   report, words, storage, outcome, loader_vars, session_vars, bank_arg>>

\* the await of gather ends and analyze runs to its end
gather_returns ==
    /\ tasks.status = "created"
    /\ \/ tasks.grammar.status = "raised"
       \/ tasks.grammar.status = "returned" /\ tasks.vocabulary # <<>>
    /\ report' = report_of_tasks(tasks)
    /\ tasks' = [tasks EXCEPT !.status = report'.status]
    /\ UNCHANGED <<text, checker, grammar, question_bank, essay_result, test, prev, lexis,
                   words, storage, outcome, synsets_cache, loader_vars, session_vars, bank_arg>>

NextTasks ==
    \/ analyze_creates_tasks
    \/ grammar_task_starts
    \/ grammar_task_finishes
    \/ vocabulary_task_runs
    \/ gather_returns

SpecTasks == InitTasks /\ [][NextTasks]_vars

(***************************************************************************)
(* SpecLoader: analyzers constructed one after another in a process where  *)
(* spacy.load("en_core_web_sm") succeeds ("ok"), raises OSError (the model *)
(* is not installed) or raises another exception ("error")                 *)
(***************************************************************************)
MaxAnalyzers == 4

LoaderState ==
    [instances |-> nlp_instances, cache |-> nlp_cache, analyzers |-> analyzers,
     raised |-> FALSE]

InitLoader ==
    /\ spacy_model \in {"ok", "OSError", "error"}
    /\ nlp_instances = <<>>
    /\ nlp_cache = [m \in {} |-> 0]
    /\ analyzers = <<>>
    /\ text = BlankText("empty") /\ checker = CleanChecker /\ grammar = NotCalled
    /\ DiagIdle
    /\ PipelineIdle
    /\ ServiceIdle

\* the constructor ran from the state of the loaders to st
Constructed(st) ==
    /\ nlp_instances' = st.instances
    /\ nlp_cache' = st.cache
    /\ analyzers' = st.analyzers
    /\ UNCHANGED <<text, checker, grammar, question_bank, essay_result, test, prev,
                   lexis, report, words, storage, outcome, synsets_cache, spacy_model,
                   tasks, session_vars, bank_arg>>

construct_grammar_analyzer ==
    /\ Len(analyzers) < MaxAnalyzers
    /\ Constructed(GrammarAnalyzer_init(LoaderState, spacy_model))

construct_wordnet_analyzer ==
    /\ Len(analyzers) < MaxAnalyzers
    /\ Constructed(WordNetAnalyzer_init(LoaderState, spacy_model))

construct_vocabulary_analyzer ==
    /\ Len(analyzers) < MaxAnalyzers
    /\ Constructed(VocabularyAnalyzer_init(LoaderState, spacy_model))

construct_text_analyzer ==
    /\ Len(analyzers) < MaxAnalyzers
    /\ Constructed(TextAnalyzer_init(LoaderState, spacy_model))

NextLoader ==
    \/ construct_grammar_analyzer
    \/ construct_wordnet_analyzer
    \/ construct_vocabulary_analyzer
    \/ construct_text_analyzer

SpecLoader == InitLoader /\ [][NextLoader]_vars

(***************************************************************************)
(* analysis_service.py / models/analysis.py: test sessions.  A row of      *)
(* test_sessions is the record of its columns that the service writes; a   *)
(* row of test_answers is its question_id, user_answer and is_correct.     *)
(* db holds what is committed.  The SQLAlchemy Session of a request is     *)
(* made with autoflush=False: the INSERT of the answer and the UPDATE of   *)
(* the session row are both sent at db.commit(), and the UPDATE sets the   *)
(* columns whose attribute the request changed, to the values the request  *)
(* computed from the row it loaded.                                        *)
(***************************************************************************)
\* the placeholder every answer is compared with
correct_answer_example == "correct_answer_example"

\* TestSession(...) of start_test_session, the other columns at their defaults
TestSession(test_type) ==
    [test_type |-> test_type,
     total_questions |-> IF test_type = "mixed" THEN 10 ELSE 15,
     questions_answered |-> 0,
     correct_answers |-> 0,
     final_score |-> R(0),
     final_cefr |-> None,
     is_completed |-> FALSE]

TestAnswer(question_id, user_answer) ==
    [question_id |-> question_id, user_answer |-> user_answer,
     is_correct |-> (user_answer = correct_answer_example)]

\* (correct_answers / total_questions) * 100
session_accuracy(row) == Norm(row.correct_answers * 100, row.total_questions)

\* the if/elif chain on accuracy
final_cefr_of(accuracy) ==
    IF RLt(accuracy, R(40)) THEN "A1"
    ELSE IF RLt(accuracy, R(50)) THEN "A2"
    ELSE IF RLt(accuracy, R(60)) THEN "B1"
    ELSE IF RLt(accuracy, R(75)) THEN "B2"
    ELSE IF RLt(accuracy, R(90)) THEN "C1"
    ELSE "C2"

\* questions_answered += 1, and correct_answers += 1 for a correct answer
session_counted(row, is_correct) ==
    [row EXCEPT !.questions_answered = @ + 1,
                !.correct_answers = IF is_correct THEN @ + 1 ELSE @]

\* the counted row closed where every question is answered
session_closed(row) ==
    IF row.questions_answered >= row.total_questions
    THEN [row EXCEPT !.is_completed = TRUE,
                     !.final_score = session_accuracy(row),
                     !.final_cefr = final_cefr_of(session_accuracy(row))]
    ELSE row

\* the session object of the request when it reaches db.commit()
session_answered(loaded, is_correct) == session_closed(session_counted(loaded, is_correct))

\* the UPDATE of the flush: the changed columns are set, the others keep what the row
\* holds by now
flush_update(current, loaded, changed) ==
    [c \in DOMAIN current |-> IF changed[c] = loaded[c] THEN current[c] ELSE changed[c]]

\* db.commit() of a request that loaded the session row and holds the answer
commit_answer(d, loaded, answer) ==
    [session |-> <<flush_update(d.session[1], loaded,
                                session_answered(loaded, answer.is_correct))>>,
     answers |-> Append(d.answers, answer)]

(***************************************************************************)
(* Inputs of the test sessions                                             *)
(***************************************************************************)
MaxAnswers == 12
MaxRequests == 3

TestTypes == {"mixed", "grammar"}

UserAnswers == {correct_answer_example, "went"}

\* the handler stores the question id and reads nothing from it
QuestionNumbers == {1}

\* the analyzers and the engine take no part
InitService ==
    /\ text = BlankText("empty") /\ checker = CleanChecker /\ grammar = NotCalled
    /\ DiagIdle
    /\ PipelineIdle
    /\ LoaderIdle
    /\ ServiceIdle

(***************************************************************************)
(* SpecSession: a test session is started and answers are submitted one    *)
(* call after the other, each call run from its start to its return        *)
(***************************************************************************)
start_test_session ==
    /\ db.session = <<>>
    /\ \E test_type \in TestTypes :
          db' = [db EXCEPT !.session = <<TestSession(test_type)>>]
    /\ UNCHANGED <<text, checker, grammar, question_bank, essay_result, test, prev, lexis,
                   report, words, storage, outcome, synsets_cache, loader_vars, tasks,
                   requests, bank_arg>>

submit_test_answer ==
    /\ db.session # <<>>
    /\ Len(db.answers) < MaxAnswers
    /\ \E question_id \in QuestionNumbers, user_answer \in UserAnswers :
          db' = commit_answer(db, db.session[1], TestAnswer(question_id, user_answer))
    /\ UNCHANGED <<text, checker, grammar, question_bank, essay_result, test, prev, lexis,
                   report, words, storage, outcome, synsets_cache, loader_vars, tasks,
                   requests, bank_arg>>

NextSession == start_test_session \/ submit_test_answer

SpecSession == InitService /\ [][NextSession]_vars

(***************************************************************************)
(* SpecRequests: calls of submit_test_answer for one session, each in a    *)
(* request with its own database session, served by worker processes on    *)
(* the same database.  A call is two steps: to the query that loads the    *)
(* session row, and from there to db.commit().                             *)
(***************************************************************************)
\* db.add(test_answer), then db.query(TestSession)...first()
submit_loads_session ==
    /\ db.session # <<>>
    /\ Len(requests) < MaxRequests
    /\ \E question_id \in QuestionNumbers, user_answer \in UserAnswers :
          requests' = Append(requests, [pc |-> "loaded",
                                        answer |-> TestAnswer(question_id, user_answer),
                                        session |-> db.session[1]])
    /\ UNCHANGED <<text, checker, grammar, question_bank, essay_result, test, prev, lexis,
                   report, words, storage, outcome, synsets_cache, loader_vars, tasks,
                   db, bank_arg>>

\* the counters changed on the loaded object, then db.commit()
submit_commits ==
    /\ \E r \in DOMAIN requests :
          /\ requests[r].pc = "loaded"
          /\ db' = commit_answer(db, requests[r].session, requests[r].answer)
          /\ requests' = [requests EXCEPT ![r].pc = "committed"]
    /\ UNCHANGED <<text, checker, grammar, question_bank, essay_result, test, prev, lexis,
                   report, words, storage, outcome, synsets_cache, loader_vars, tasks,
                   bank_arg>>

NextRequests == start_test_session \/ submit_loads_session \/ submit_commits

SpecRequests == InitService /\ [][NextRequests]_vars

(***************************************************************************)
(* Properties of GrammarAnalyzer.analyze, checked under SpecGrammar        *)
(***************************************************************************)
Returned == grammar.status = "returned"

UsedKeys == Range(grammar.ga.used_aspects.keys)

UntrackedAspects == {"VOCABULARY_USAGE", "VOCABULARY_COLLOCATIONS", "SENTENCE_STRUCTURE"}

\* C2: in every GrammarAnalysis returned, the keys of used_aspects and the set
\* unused_aspects are disjoint, their union is the universe of 15 tracked aspects,
\* and no untracked aspect is a key of used_aspects.
UsedAndUnusedPartitionUniverse ==
    Returned =>
        /\ UsedKeys \cap grammar.ga.unused_aspects = {}
        /\ UsedKeys \cup grammar.ga.unused_aspects = all_aspects
        /\ DOMAIN grammar.ga.used_aspects.val = UsedKeys
        /\ UsedKeys \cap UntrackedAspects = {}
        /\ Cardinality(all_aspects) = 15

\* a normal-path result with used aspects and a rule-checker bucket for an untracked aspect
PartitionWitness ==
    /\ Returned
    /\ text.kind = "doc"
    /\ UsedKeys # {}
    /\ DictHas(grammar.ga.grammar_check_result.errors_by_aspect, "SENTENCE_STRUCTURE")

\* C4: for empty or whitespace-only text the result is the fixed neutral one
\* (overall 60, structure 60, accuracy 100, no used aspect, all 15 unused) and
\* neither check_text nor calculate_grammar_score is called.
BlankTextNeutralNoCheckerCall ==
    (text.kind \in {"empty", "spaces"} /\ grammar.status # "none") =>
        /\ Returned
        /\ grammar.ga.overall_grammar = R(60)
        /\ grammar.ga.sentence_structure = R(60)
        /\ grammar.ga.grammatical_accuracy = R(100)
        /\ grammar.ga.used_aspects.keys = <<>>
        /\ grammar.ga.unused_aspects = all_aspects
        /\ Cardinality(grammar.ga.unused_aspects) = 15
        /\ grammar.calls = <<>>

\* a whitespace-only text analysed while the rule checker is available
BlankTextWitness ==
    /\ text.kind = "spaces"
    /\ Returned
    /\ checker.tool /\ checker.matches # <<>>

\* the weighted blend as the specification states it, from the fields of a result
StatedBlend(ga) ==
    IF ga.used_aspects.keys # <<>>
    THEN RAdd(RAdd(RTimes(Mean(ga.used_aspects.val), 1, 2),
                   RTimes(ga.sentence_structure, 3, 10)),
              RTimes(ga.grammatical_accuracy, 1, 5))
    ELSE RAdd(RTimes(ga.sentence_structure, 7, 10), RTimes(ga.grammatical_accuracy, 3, 10))

OnlyPresentSimple85 ==
    /\ Returned
    /\ grammar.ga.used_aspects.keys = <<"PRESENT_SIMPLE">>
    /\ grammar.ga.used_aspects.val["PRESENT_SIMPLE"] = R(85)
    /\ checker.tool /\ checker.matches = <<>>

\* C5: the overall score _calculate_overall_grammar yields (any non-blank text) is
\* max(30, blend - min(15, 1.5 * total_errors)), the blend being
\* aspect-mean*0.5 + structure*0.3 + accuracy*0.2 whenever an aspect was used and
\* structure*0.7 + accuracy*0.3 only when none was; with used_aspects exactly
\* {PRESENT_SIMPLE: 85} and no match, 14 aspects are unused and
\* overall = 85*0.5 + structure*0.3 + accuracy*0.2.
OverallIsBlendMinusPenalty ==
    (Returned /\ text.kind = "doc") =>
        /\ grammar.ga.overall_grammar =
              RMax(R(30), RSub(StatedBlend(grammar.ga),
                               RMin(R(15), RTimes(R(grammar.ga.grammar_check_result.total_errors),
                                                  3, 2))))
        /\ OnlyPresentSimple85 =>
              /\ Cardinality(grammar.ga.unused_aspects) = 14
              /\ grammar.ga.overall_grammar =
                    RAdd(RAdd(RTimes(R(85), 1, 2), RTimes(grammar.ga.sentence_structure, 3, 10)),
                         RTimes(grammar.ga.grammatical_accuracy, 1, 5))

\* the end-to-end scenario: a 95-word text, present simple only, no match
SinglePresentSimpleWitness == OnlyPresentSimple85 /\ text.filler = 95

\* C6: analysing the same text with one more rule-checker error bucketed under an
\* aspect never increases the adjusted score of any used aspect.
MoreErrorsNeverRaiseAdjustedScore ==
    [][(Returned /\ grammar'.status = "returned") =>
          \A a \in UsedKeys :
              RLe(grammar'.ga.used_aspects.val[a], grammar.ga.used_aspects.val[a])]_vars

\* an aspect adjusted under two errors, short of the floor or on it
TwoErrorsOnArticlesWitness ==
    /\ Returned
    /\ DictHas(grammar.ga.used_aspects, "ARTICLES")
    /\ DictHas(grammar.ga.grammar_check_result.errors_by_aspect, "ARTICLES")
    /\ Len(grammar.ga.grammar_check_result.errors_by_aspect.val["ARTICLES"]) = 2
    /\ RLt(grammar.ga.used_aspects.val["ARTICLES"], R(70))

\* C7: with zero rule-checker errors _calculate_overall_grammar applies no global
\* penalty: the overall score of a non-blank text is the weighted blend, subject
\* only to the floor of 30.
NoErrorsNoGlobalPenalty ==
    (Returned /\ text.kind = "doc" /\ grammar.ga.grammar_check_result.total_errors = 0) =>
        grammar.ga.overall_grammar = RMax(R(30), StatedBlend(grammar.ga))

\* the checker ran and found nothing, and a detected aspect scores above 80
NoErrorsWitness ==
    /\ Returned
    /\ text.kind = "doc"
    /\ checker.tool /\ checker.check = "ok" /\ checker.matches = <<>>
    /\ \E a \in UsedKeys : RLt(R(80), grammar.ga.used_aspects.val[a])
    /\ RLt(R(30), grammar.ga.overall_grammar)

(***************************************************************************)
(* Properties of DiagnosticEngine.generate_followup_test, under SpecDiag   *)
(***************************************************************************)
\* C8: generate_followup_test returns at most 10 questions, however many
\* candidates the four selection steps collect.
AtMostTenQuestions ==
    test.status = "returned" => Len(test.questions) <= 10

\* eleven candidates collected (4 unused-aspect, 2 weak-aspect, 3 level, 2 vocabulary)
MoreThanTenCollected ==
    /\ test.status = "returned"
    /\ test.collected = 11
    /\ Len(test.questions) = 10

\* C9: no two questions of a returned list have the same identifier.
NoTwoQuestionsShareId ==
    test.status = "returned" =>
        \A i, j \in 1..Len(test.questions) :
            i # j => test.questions[i].id # test.questions[j].id

\* C10: two calls on the same AnalysisResult under the same seed return the same
\* set of question identifiers, in whatever order the set of unused aspects is
\* iterated.
SameSeedSameIdSet ==
    (test.status = "returned" /\ prev.status = "returned" /\ test.seed = prev.seed) =>
        QuestionIds(test) = prev.ids

(***************************************************************************)
(* Properties of TextAnalyzer.analyze, checked under SpecText              *)
(***************************************************************************)
InScoreRange(x) == RLe(R(0), x) /\ RLe(x, R(100))

\* C3: every produced score lies in [0, 100]: the confidence figure, each used-aspect
\* score, the structural, complexity and accuracy scores, overall grammar, lexical
\* diversity, sophistication, appropriateness and overall vocabulary, whatever the
\* annotation, the rule checker's result and the WordNet answers are.
EveryScoreWithinZeroAndHundred ==
    report.status = "returned" =>
        /\ InScoreRange(report.confidence)
        /\ text.kind = "doc" =>
              /\ \A a \in Range(report.grammar.used_aspects.keys) :
                    InScoreRange(report.grammar.used_aspects.val[a])
              /\ InScoreRange(report.grammar.sentence_structure)
              /\ InScoreRange(report.grammar.sentence_complexity)
              /\ InScoreRange(report.grammar.grammatical_accuracy)
              /\ InScoreRange(report.grammar.overall_grammar)
              /\ InScoreRange(report.vocabulary.lexical_diversity)
              /\ InScoreRange(report.vocabulary.lexical_sophistication)
              /\ InScoreRange(report.vocabulary.word_appropriateness)
              /\ InScoreRange(report.vocabulary.overall_vocabulary)

\* a text with a used aspect whose vocabulary score reaches the cap with the level bonus
BonusReachesCapWitness ==
    /\ report.status = "returned"
    /\ text.kind = "doc"
    /\ report.grammar.used_aspects.keys # <<>>
    /\ report.vocabulary.level_distribution = [l \in {"C2"} |-> 1]
    /\ report.vocabulary.overall_vocabulary = R(100)

(***************************************************************************)
(* Properties of EnglishAnalyzer.analyze_essay, checked under Spec         *)
(***************************************************************************)
\* C1: analyze_essay rejects a text with a validation error exactly when its
\* whitespace-separated word count is below 90 (status TOO_SHORT) or above 400
\* (status TOO_LONG); every count from 90 to 400 passes the validation.
RejectedExactlyOutsideNinetyToFourHundred ==
    outcome.status # "none" =>
        /\ outcome.status = "rejected" <=> (words < 90 \/ words > 400)
        /\ words < 90 => outcome.validation = "TOO_SHORT"
        /\ words > 400 => outcome.validation = "TOO_LONG"
        /\ (words >= 90 /\ words <= 400) => outcome.validation = "VALID"
        /\ outcome.word_count = words

\* a text of exactly 90 words passes the validation, is analysed, saved and given a test
NinetyWordsAcceptedWitness ==
    /\ words = 90
    /\ outcome.status = "returned"
    /\ Len(storage) = 1
    /\ test.status = "returned"

(***************************************************************************)
(* Properties of the rule checker's failures, checked under SpecGrammar    *)
(***************************************************************************)
\* C11: a failing or unavailable rule checker never fails the analysis: whether the
\* tool could not be constructed, its check call raises or its correct call raises,
\* no exception of the rule checker reaches the caller of GrammarAnalyzer.analyze.
RuleCheckerNeverFailsAnalysis ==
    grammar.status # "raised"

\* C12: whenever the rule checker is unavailable (no tool) or its check call raises
\* while the score is computed, the rule-check score that enters grammatical accuracy
\* is the one of the local heuristic fallback.
FallbackScoreEntersAccuracy ==
    (Returned /\ text.kind = "doc" /\ (~checker.tool \/ checker.recheck = "raise")) =>
        grammar.ga.grammatical_accuracy =
            calculate_grammatical_accuracy(grammar.ga.used_aspects,
                                           fallback_grammar_score(text, DocLen(text)))

(***************************************************************************)
(* Properties of the rule-check call, checked under SpecRuleCheck          *)
(***************************************************************************)
\* C13: the call to the external rule-checking service is behind a timeout: also
\* when the service never responds, GrammarAnalyzer.analyze eventually completes.
AnalyzeEventuallyCompletes ==
    <>(grammar.status \in {"returned", "raised"})

(***************************************************************************)
(* Properties of the annotation-model loaders, checked under SpecLoader    *)
(***************************************************************************)
\* the analyzers whose construction completed the assignment of self.nlp
Holding == {i \in DOMAIN analyzers : analyzers[i].nlp # 0}

\* C14 as stated: a model that cannot be loaded is fatal with no fallback: where
\* spacy.load fails no analyzer is constructed, and no analyzer ever holds a
\* substitute (blank) annotator.
AnnotationFailureIsFatal ==
    /\ spacy_model # "ok" => Holding = {}
    /\ \A i \in Holding : nlp_instances[analyzers[i].nlp] # "blank"

\* C14, amended: where spacy.load raises OSError (the model is not installed) every
\* analyzer is constructed without an exception and holds the blank English pipeline
\* with a sentencizer as its annotator; only an exception of another type reaches the
\* caller of the constructor, and then no annotator is substituted; where the model
\* loads, every analyzer holds the loaded model.
MissingModelSubstitutesBlankPipeline ==
    /\ spacy_model = "OSError" =>
          \A i \in DOMAIN analyzers :
              i \in Holding /\ nlp_instances[analyzers[i].nlp] = "blank"
    /\ spacy_model = "error" => (Holding = {} /\ nlp_instances = <<>>)
    /\ spacy_model = "ok" =>
          \A i \in DOMAIN analyzers :
              i \in Holding /\ nlp_instances[analyzers[i].nlp] = "model"

\* the model is not installed and an analyzer of each of the three classes is constructed
BlankPipelineEverywhereWitness ==
    /\ spacy_model = "OSError"
    /\ {analyzers[i].class : i \in Holding} =
          {"GrammarAnalyzer", "VocabularyAnalyzer", "WordNetAnalyzer"}
    /\ \A i \in Holding : nlp_instances[analyzers[i].nlp] = "blank"

\* C16: the annotation model is a process-wide singleton: over any constructions of
\* GrammarAnalyzer, VocabularyAnalyzer and WordNetAnalyzer the loader runs at most
\* once and all analyzers hold the same instance.
OneAnnotationModelForAll ==
    /\ Len(nlp_instances) <= 1
    /\ \A i, j \in Holding : analyzers[i].nlp = analyzers[j].nlp

(***************************************************************************)
(* Properties of the WordNet scores, checked under SpecText                *)
(***************************************************************************)
\* a text was analysed whose content lemmas all have no synsets in WordNet
AnalysedWithoutSynsets ==
    /\ report.status = "returned"
    /\ text.kind = "doc"
    /\ \A i \in DOMAIN lexis.wn_types : lexis.wn_types[i].synsets = 0

\* C15 as stated: when WordNet returns no synsets for every content lemma, synonym
\* diversity, polysemy and semantic density are all 0 and so is the semantic-richness
\* component 0.55*diversity + 0.30*polysemy + 0.15*density.
EmptyLookupIsZeroRichness ==
    AnalysedWithoutSynsets =>
        /\ report.vocabulary.wordnet_analysis =
              [synonym_diversity |-> R(0), polysemy_score |-> R(0), semantic_density |-> R(0)]
        /\ wordnet_component(report.vocabulary.wordnet_analysis) = R(0)

\* C15, amended: an empty lookup is no error, and a lemma without synsets scores the
\* lowest step of each ladder, not zero: with at least one content lemma and no synsets
\* for any of them, synonym diversity is 20, polysemy is 25, semantic density is 0 and
\* the semantic-richness component is 0.55*20 + 0.30*25 = 18.5; the three scores and
\* the component are 0 only for a text without content lemmas.
EmptyLookupScoresLowestSteps ==
    AnalysedWithoutSynsets =>
        /\ lexis.wn_types # <<>> =>
              /\ report.vocabulary.wordnet_analysis =
                    [synonym_diversity |-> R(20), polysemy_score |-> R(25),
                     semantic_density |-> R(0)]
              /\ wordnet_component(report.vocabulary.wordnet_analysis) = <<37, 2>>
        /\ lexis.wn_types = <<>> =>
              /\ report.vocabulary.wordnet_analysis =
                    [synonym_diversity |-> R(0), polysemy_score |-> R(0),
                     semantic_density |-> R(0)]
              /\ wordnet_component(report.vocabulary.wordnet_analysis) = R(0)

\* two content lemmas, WordNet knows neither, and they are listed as a related pair
TwoUnknownLemmasWitness ==
    /\ AnalysedWithoutSynsets
    /\ Len(lexis.wn_types) = 2
    /\ lexis.wn_related # {}

\* C17: scoring the same annotated document twice with the same rule-checker result
\* and the same WordNet answers yields identical GrammarAnalysis and VocabularyAnalysis
\* values (and the same confidence): the synset cache filled by the first call and the
\* extras written into the rule-check bundle do not change the second result.
SecondAnalysisEqualsFirst ==
    (prev.status = "returned" /\ report.status = "returned") =>
        /\ report.grammar = prev.grammar
        /\ report.vocabulary = prev.vocabulary
        /\ report = prev

\* the second call read both synset counts from the cache, and they differ
SecondCallReadsCacheWitness ==
    /\ prev.status = "returned"
    /\ report.status = "returned"
    /\ text.kind = "doc"
    /\ DOMAIN synsets_cache = 1..2
    /\ synsets_cache[1] # synsets_cache[2]
    /\ report.grammar.grammar_check_result.word_count = <<DocLen(text)>>

(***************************************************************************)
(* Properties of the aspect scan and the adjustment, under SpecGrammar     *)
(***************************************************************************)
\* the rule checker's buckets of a returned analysis
Buckets == grammar.ga.grammar_check_result.errors_by_aspect

\* C18: for each aspect present both in the used-aspect map and in the rule checker's
\* buckets the adjusted score is max(30, score - min(20, 5 * errors of that aspect));
\* every other used aspect keeps its score, a bucket of an aspect that is not used adds
\* no key, and the map the scan produced is what the scores are taken from, unmodified.
AdjustmentLowersBucketedAspectsOnly ==
    (Returned /\ text.kind = "doc") =>
        /\ grammar.ga.used_aspects.keys = analyze_used_grammar_aspects(text).keys
        /\ \A a \in UsedKeys :
              grammar.ga.used_aspects.val[a] =
                  IF DictHas(Buckets, a)
                  THEN RMax(R(30), RSub(analyze_used_grammar_aspects(text).val[a],
                                        RMin(R(20), R(5 * Len(Buckets.val[a])))))
                  ELSE analyze_used_grammar_aspects(text).val[a]

\* two used aspects, one of them with a bucket of more than four errors and lowered by
\* the full 20, the other without a bucket, and a bucket of an aspect that is not used
BucketsInsideAndOutsideWitness ==
    /\ Returned
    /\ text.kind = "doc"
    /\ Cardinality(UsedKeys) = 2
    /\ \E a \in UsedKeys :
          /\ DictHas(Buckets, a)
          /\ Len(Buckets.val[a]) > 4
          /\ grammar.ga.used_aspects.val[a] =
                RSub(analyze_used_grammar_aspects(text).val[a], R(20))
    /\ \E a \in UsedKeys : ~DictHas(Buckets, a)
    /\ \E a \in Range(Buckets.keys) : a \notin UsedKeys

\* what token i alone triggers: the scan of it into an empty map
TriggeredBy(doc, i) == ScanToken(EmptyDict, doc, i)

\* the first token in document order that triggers the aspect
FirstTrigger(doc, a) ==
    CHOOSE i \in 1..Len(doc.tokens) :
        /\ DictHas(TriggeredBy(doc, i), a)
        /\ \A j \in 1..(i - 1) : ~DictHas(TriggeredBy(doc, j), a)

\* C19: in the aspect-detection scan each aspect gets at most one entry and the first
\* occurrence wins: the aspects found are those some token triggers, and the score of
\* each is the one its first triggering token gives, whatever later tokens that trigger
\* the same aspect would give (the ARTICLES score is decided by the first article).
FirstOccurrenceWins ==
    (Returned /\ text.kind = "doc") =>
        /\ Range(analyze_used_grammar_aspects(text).keys) =
              {a \in all_aspects : \E i \in 1..Len(text.tokens) :
                                      DictHas(TriggeredBy(text, i), a)}
        /\ Cardinality(Range(analyze_used_grammar_aspects(text).keys)) =
              Len(analyze_used_grammar_aspects(text).keys)
        /\ \A a \in Range(analyze_used_grammar_aspects(text).keys) :
              analyze_used_grammar_aspects(text).val[a] =
                  TriggeredBy(text, FirstTrigger(text, a)).val[a]
        /\ Buckets.keys = <<>> =>
              grammar.ga.used_aspects = analyze_used_grammar_aspects(text)

\* two article tokens that alone give different scores: the result has the first one's
TwoArticlesFirstDecidesWitness ==
    /\ Returned
    /\ Len(text.tokens) = 3
    /\ DictHas(TriggeredBy(text, 1), "ARTICLES")
    /\ DictHas(TriggeredBy(text, 3), "ARTICLES")
    /\ TriggeredBy(text, 1).val["ARTICLES"] # TriggeredBy(text, 3).val["ARTICLES"]
    /\ Buckets.keys = <<>>
    /\ grammar.ga.used_aspects.val["ARTICLES"] = TriggeredBy(text, 1).val["ARTICLES"]

(***************************************************************************)
(* Properties of the weak areas of an AnalysisResult, checked under Spec   *)
(***************************************************************************)
\* the used aspects that score below 60, in the order of the map
WeakKeys(g) == SelectSeq(g.used_aspects.keys, LAMBDA a : RLt(g.used_aspects.val[a], R(60)))

Flag(b) == IF b THEN 1 ELSE 0

\* entry k of the list is the weak area with these fields, not confirmed
EntryIs(gaps, k, aspect, score) ==
    /\ k <= Len(gaps)
    /\ gaps[k] = [aspect |-> aspect, score |-> score, confirmed |-> FALSE]

\* the list as the statement describes it, entry by entry
ExactlyTheStatedEntries(gaps, g, v, n) ==
    /\ \A k \in 1..n : EntryIs(gaps, k, <<"grammar", WeakKeys(g)[k]>>,
                               g.used_aspects.val[WeakKeys(g)[k]])
    /\ RLt(g.sentence_structure, R(60)) =>
          EntryIs(gaps, n + 1, <<"sentence_structure">>, g.sentence_structure)
    /\ RLt(v.overall_vocabulary, R(60)) =>
          EntryIs(gaps, n + Flag(RLt(g.sentence_structure, R(60))) + 1,
                  <<"vocabulary_range">>, v.overall_vocabulary)
    /\ v.lexical_errors > 0 =>
          EntryIs(gaps, Len(gaps), <<"lexical_errors">>,
                  RMax(R(40), RSub(v.overall_vocabulary, R(15))))
    /\ Len(gaps) = n + Flag(RLt(g.sentence_structure, R(60)))
                     + Flag(RLt(v.overall_vocabulary, R(60))) + Flag(v.lexical_errors > 0)

\* C20: the weak areas of a result are exactly: one per used grammatical aspect scoring
\* below 60, in the map's order, then one for a structural score below 60, then one for
\* an overall vocabulary below 60, then one lexical-errors entry with score
\* max(40, vocabulary - 15) when lexical errors are present; no aspect identifier occurs
\* in two entries and every entry has confirmed = false.
WeakAreasExactlyAsListed ==
    outcome.status = "returned" =>
        /\ ExactlyTheStatedEntries(essay_result.identified_gaps, essay_result.grammar,
                                   essay_result.vocabulary,
                                   Len(WeakKeys(essay_result.grammar)))
        /\ \A i, j \in DOMAIN essay_result.identified_gaps :
              i # j => essay_result.identified_gaps[i].aspect
                           # essay_result.identified_gaps[j].aspect
        /\ \A i \in DOMAIN essay_result.identified_gaps :
              ~essay_result.identified_gaps[i].confirmed

\* all four kinds at once: two weak aspects, weak structure, weak vocabulary, lexical errors
AllKindsOfWeakAreaWitness ==
    /\ outcome.status = "returned"
    /\ Len(WeakKeys(essay_result.grammar)) = 2
    /\ Len(essay_result.identified_gaps) = 5
    /\ essay_result.identified_gaps[5].aspect = <<"lexical_errors">>
    /\ essay_result.identified_gaps[5].score = R(40)

(***************************************************************************)
(* Properties of the selection steps, checked under SpecDiag               *)
(***************************************************************************)
NoQuestionType == {"CONDITIONALS", "PASSIVE_VOICE", "MODAL_VERBS", "RELATIVE_CLAUSES"}

\* the bank has a question of the aspect at the level
BankHas(aspect, level) ==
    \E i \in DOMAIN question_bank :
        question_bank[i].aspect = aspect /\ question_bank[i].difficulty = level

\* the first four unused aspects as the call iterated them
FirstFourUnused == Take(test.steps.unused_list, 4)

BankAt(level) == SelectSeq(question_bank, LAMBDA q : q.difficulty = level)

\* the next level up in A1 < A2 < B1 < B2 < C1 < C2, written out
NextUp(level) ==
    CASE level = "A1" -> "A2" [] level = "A2" -> "B1" [] level = "B1" -> "B2"
      [] level = "B2" -> "C1" [] level = "C1" -> "C2"

\* C22: step 3 contributes up to 2 questions of the result's estimated level and then
\* up to 1 question of the next level up in A1 < A2 < B1 < B2 < C1 < C2; at level C2
\* no next-level question is appended, and the call returns all the same.
LevelStepTwoPlusOneNextUp ==
    test.status = "returned" =>
        test.steps.level =
            Take(BankAt(essay_result.preliminary_cefr), 2)
            \o (IF essay_result.preliminary_cefr = "C2" THEN <<>>
                ELSE Take(BankAt(NextUp(essay_result.preliminary_cefr)), 1))

\* a result of level C2 and a bank with questions of levels C2 and A1: step 3 gives
\* the C2 question alone
TopLevelNoNextWitness ==
    /\ test.status = "returned"
    /\ essay_result.preliminary_cefr = "C2"
    /\ BankAt("A1") # <<>>
    /\ Len(test.steps.level) = 1
    /\ test.steps.level[1].difficulty = "C2"

\* the full step: two questions of level B1 and one of level B2
TwoPlusOneWitness ==
    /\ test.status = "returned"
    /\ essay_result.preliminary_cefr = "B1"
    /\ Len(test.steps.level) = 3
    /\ test.steps.level[3].difficulty = "B2"

\* the bank has a question of the type at the level
BankHasType(question_type, level) ==
    \E i \in DOMAIN question_bank :
        question_bank[i].type = question_type /\ question_bank[i].difficulty = level

\* the used aspects with a score below 60
WeakAspects ==
    {a \in Range(essay_result.grammar.used_aspects.keys) :
        RLt(essay_result.grammar.used_aspects.val[a], R(60))}

\* the lookups of each step that match a question of the bank
MatchingLookups ==
    [unused |-> {a \in Range(FirstFourUnused) \ NoQuestionType :
                    BankHas(a, essay_result.preliminary_cefr)},
     weak |-> {a \in WeakAspects : BankHas(a, essay_result.preliminary_cefr)},
     level |-> {l \in {essay_result.preliminary_cefr}
                      \cup (IF essay_result.preliminary_cefr = "C2" THEN {}
                            ELSE {NextUp(essay_result.preliminary_cefr)}) :
                   BankAt(l) # <<>>},
     vocabulary |-> {t \in {"VOCABULARY_COMPLEXITY", "VOCABULARY_APPROPRIATENESS"} :
                        BankHasType(t, essay_result.preliminary_cefr)}]

\* C23: a lookup that matches no bank question adds no question (each step contributes
\* exactly one list per matching lookup, so a step none of whose lookups match adds
\* nothing), and every call of generate_followup_test returns, with an empty list when
\* no lookup of any step matches.
EmptyMatchesAddNothing ==
    /\ prev.status # "none" => test.status = "returned"
    /\ test.status = "returned" =>
          /\ Len(test.steps.unused) = Cardinality(MatchingLookups.unused)
          /\ Len(test.steps.weak) = Cardinality(MatchingLookups.weak)
          /\ MatchingLookups.level = {} <=> test.steps.level = <<>>
          /\ Len(test.steps.vocabulary) = Cardinality(MatchingLookups.vocabulary)
          /\ (\A k \in DOMAIN MatchingLookups : MatchingLookups[k] = {})
                => test.questions = <<>>

\* a call on a bank with questions, none of them matched by a lookup: the test is empty
NothingMatchesEmptyTestWitness ==
    /\ test.status = "returned"
    /\ question_bank # <<>>
    /\ essay_result.grammar.unused_aspects # {}
    /\ WeakAspects # {}
    /\ \A k \in DOMAIN MatchingLookups : MatchingLookups[k] = {}
    /\ test.questions = <<>>

\* the level the stated thresholds give a score
StatedLevel(score) ==
    CASE RLe(R(85), score) -> "C1"
      [] RLe(R(70), score) /\ RLt(score, R(85)) -> "B2"
      [] RLe(R(55), score) /\ RLt(score, R(70)) -> "B1"
      [] RLe(R(40), score) /\ RLt(score, R(55)) -> "A2"
      [] RLt(score, R(40)) -> "A1"

\* the scores at the four thresholds, half a point below and above them, and the ends
ThresholdScores ==
    {Norm(2 * t + d, 2) : t \in {40, 55, 70, 85}, d \in {-1, 0, 1}} \cup {R(0), R(100)}

\* the questions the four steps selected for the test
SelectedQuestions ==
    Range(test.steps.unused) \cup Range(test.steps.weak) \cup Range(test.steps.vocabulary)

\* C24: the preliminary score is the mean of overall grammar and overall vocabulary, the
\* preliminary level of the result is C1 from 85, B2 from 70, B1 from 55, A2 from 40 and
\* A1 below (the thresholds themselves included, as the scores around them show); it is
\* never C2, so the next level up exists; and question selection uses this level.
PreliminaryLevelByThresholds ==
    /\ \A score \in ThresholdScores : determine_preliminary_cefr(score) = StatedLevel(score)
    /\ outcome.status = "returned" =>
        /\ essay_result.preliminary_score =
              RDiv(RAdd(essay_result.grammar.overall_grammar,
                        essay_result.vocabulary.overall_vocabulary), R(2))
        /\ essay_result.preliminary_cefr = StatedLevel(essay_result.preliminary_score)
        /\ essay_result.preliminary_cefr # "C2"
        /\ get_next_level(essay_result.preliminary_cefr)
              = NextUp(essay_result.preliminary_cefr)
        /\ \A q \in SelectedQuestions : q.difficulty = essay_result.preliminary_cefr
        /\ test.steps.level =
              Take(BankAt(essay_result.preliminary_cefr), 2)
              \o Take(BankAt(NextUp(essay_result.preliminary_cefr)), 1)

\* a result at the top: score at least 85, level C1, next level C2
TopScoreIsC1Witness ==
    /\ outcome.status = "returned"
    /\ RLe(R(85), essay_result.preliminary_score)
    /\ essay_result.preliminary_cefr = "C1"

\* the banks an engine is constructed with, each with the parameters it was built with
ConstructedBanks == {engine_question_bank(arg) : arg \in BankArguments}

\* C25: no call of generate_followup_test changes the question bank: the same questions
\* in the same order with the same fields, the difficulty and discrimination parameters
\* included; the shuffle and the truncation act on the candidate list of the call.
BankNeverMutated == [][question_bank' = question_bank]_vars

\* after two calls on the bank given to the constructor, the second of which shuffled
\* its candidates into another order and cut them to ten, the bank is as constructed
ShuffledAndCutBankIntactWitness ==
    /\ prev.status = "returned"
    /\ test.status = "returned"
    /\ test.collected > 10
    /\ test.questions # Take(collect_questions(test.steps), 10)
    /\ question_bank = CustomBank

\* the static bank carries the parameters of the levels of its questions
StaticBankParametersWitness ==
    /\ test.status = "returned"
    /\ question_bank \in ConstructedBanks
    /\ question_bank[1].difficulty_param = <<1, 5>>
    /\ question_bank[5].discrimination_param = <<7, 5>>

(***************************************************************************)
(* Properties of the two analyzer tasks, checked under SpecTasks           *)
(***************************************************************************)
\* C26: the two tasks share no state: whichever ran first and however their steps
\* interleaved, each task's result is what its analyzer gives the text alone, the synset
\* cache is what the vocabulary task alone leaves, and the report is the one of the
\* grammar-then-vocabulary run.
TaskOrderMakesNoDifference ==
    /\ tasks.grammar.status \in {"returned", "raised"}
          => tasks.grammar = GrammarAnalyze(text, checker)
    /\ tasks.vocabulary # <<>>
          => /\ tasks.vocabulary[1] = VocabularyAnalyze(through_cache(<<>>, lexis))
             /\ synsets_cache = synsets_cache_after(<<>>, lexis.wn_types)
    /\ report.status # "none"
          => report = TextAnalyze(text, checker, through_cache(<<>>, lexis))

\* the vocabulary task ran between the two steps of the grammar task, and the report
\* is there
InterleavedTasksWitness ==
    /\ report.status = "returned"
    /\ tasks.ran = <<"grammar", "vocabulary", "grammar">>
    /\ report.grammar.overall_grammar # report.vocabulary.overall_vocabulary

\* the vocabulary task ran first
VocabularyFirstWitness ==
    /\ report.status = "returned"
    /\ tasks.ran = <<"vocabulary", "grammar", "grammar">>

(***************************************************************************)
(* Properties of what a call of analyze_essay touches, checked under Spec  *)
(***************************************************************************)
\* C27: a call that rejects the text for its word count leaves everything else as it
\* was before the call (storage empty, nothing analysed): no report of the text analyzer
\* (so no call of the rule checker and no synset lookup), storage unchanged, no test; a
\* call that succeeds appends exactly one result to storage, the one the test is
\* generated from.
RejectionTouchesNothing ==
    /\ outcome.status = "rejected"
          => /\ report = NoReport
             /\ grammar = NotCalled
             /\ synsets_cache = <<>>
             /\ storage = <<>>
             /\ essay_result = None
             /\ test = NoTest
    /\ outcome.status = "returned"
          => /\ report.status = "returned"
             /\ storage = <<essay_result>>
             /\ test.status = "returned"
    /\ outcome.status = "none" => storage = <<>> /\ test = NoTest

\* a text one word too long was rejected and nothing was analysed, saved or generated
TooLongRejectedWitness ==
    /\ outcome.status = "rejected"
    /\ outcome.validation = "TOO_LONG"
    /\ outcome.word_count = max_word_count + 1
    /\ report = NoReport
    /\ storage = <<>>
    /\ test = NoTest

\* a text of the least length was analysed: one result saved, the test generated
SavedOnceWitness ==
    /\ outcome.status = "returned"
    /\ outcome.word_count = min_word_count
    /\ storage = <<essay_result>>
    /\ test.status = "returned"

\* the bank the statement speaks of: the one passed, the static one when none was passed
StatedBank == IF bank_arg = None THEN QUESTION_BANK ELSE bank_arg

\* C28: every question of a test is an element of the bank passed to the constructor
\* (of the static bank when none was passed), so an engine constructed with an empty
\* bank returns an empty test.
QuestionsFromThePassedBank ==
    test.status = "returned" =>
        \A i \in DOMAIN test.questions : test.questions[i] \in Range(StatedBank)

(***************************************************************************)
(* Properties of the test sessions, under SpecSession and SpecRequests     *)
(***************************************************************************)
\* C29: after any sequence of submit_test_answer calls on a session,
\* 0 <= correct_answers <= questions_answered <= total_questions, the session is
\* completed exactly when questions_answered has reached total_questions, and the
\* final score of a completed session lies in [0, 100].
SessionCountersInRange ==
    db.session # <<>> =>
        /\ 0 <= db.session[1].correct_answers
        /\ db.session[1].correct_answers <= db.session[1].questions_answered
        /\ db.session[1].questions_answered <= db.session[1].total_questions
        /\ db.session[1].is_completed
              <=> db.session[1].questions_answered = db.session[1].total_questions
        /\ db.session[1].is_completed
              => RLe(R(0), db.session[1].final_score)
                 /\ RLe(db.session[1].final_score, R(100))

\* the committed calls
Committed == {r \in DOMAIN requests : requests[r].pc = "committed"}

\* the rows of test_answers marked correct
CorrectRows == {i \in DOMAIN db.answers : db.answers[i].is_correct}

\* C30: concurrent calls lose no update: when k calls have completed, in any
\* interleaving, questions_answered is k and is the number of answer rows of the
\* session, and correct_answers is the number of those rows marked correct.
NoUpdateLost ==
    db.session # <<>> =>
        /\ db.session[1].questions_answered = Cardinality(Committed)
        /\ db.session[1].questions_answered = Len(db.answers)
        /\ db.session[1].correct_answers = Cardinality(CorrectRows)

====
